---- MODULE Spec2Model ----
(***************************************************************************)
(* Ghost Operator: the incident decision engine.                           *)
(*                                                                         *)
(* One pipeline run (runPipeline, src/src/index.ts) takes a classified     *)
(* incident through the remediation strategy (RemediatorAgent.remediate),  *)
(* the validate-and-escalate loop (RemediatorAgent.validateRemediation)    *)
(* and the post-mortem stage (Spec, FairSpec).  AnalyzerSpec is the front  *)
(* of the run with the signal batch in view: detection and                 *)
(* AnalyzerAgent.analyze on the text of the batch.  Strings the code       *)
(* searches with                                                           *)
(* toLowerCase()/includes() are sequences of one-character strings, so     *)
(* that case folding and substring search are computed, not assumed.       *)
(* ServerSpec is the server around the run: the timer and the two POST     *)
(* handlers that invoke runPipeline.  HistorySpec is the incident store    *)
(* with the history lookup of remediate, and ReporterSpec is               *)
(* ReporterAgent.generatePostMortem called once and again on an incident.  *)
(* DetectorSpec is DetectorAgent.searchOutages with its parallel searches  *)
(* completing in any order, ValidatorSpec is validateRemediation called on *)
(* any action list, and StableTargetSpec is the run on a compute target    *)
(* whose listing is the same at strategy time and at validation time.      *)
(***************************************************************************)
EXTENDS Integers, Sequences, FiniteSets, TLC

VARIABLES
    pc,                 \* position of the run inside runPipeline
    severity,           \* incident.severity
    services,           \* incident.services (declared services, catalog order)
    remediationActions, \* incident.remediationActions
    resolvedAt,         \* incident.resolvedAt is set
    pastRemediations,   \* remediate: allPastRemediations (history lookup)
    pastContext,        \* remediate: pastContext (memory-search documents)
    renderServices,     \* remediate: renderServices (listing at strategy time)
    renderCalls,        \* calls issued to the compute target, in order
    storeLog,           \* calls issued to the incident store, in order
    validation,         \* result of validateRemediation
    notices,            \* stage notices broadcast by runPipeline, in order
    statusChecks,       \* getServiceStatus answers of validateRemediation
    signalBatch,        \* runPipeline: signals (the detected batch)
    incident,           \* what analyzer.analyze(signals) returned
    incidents,          \* index.ts: the incidents list (published incidents)
    lookups,            \* read calls the run issued to its collaborators
    runs,               \* the runPipeline invocations started so far
    graph,              \* the incidents held by the incident store
    similar,            \* remediate: pastResults (findSimilarIncidents)
    historyAnalysis,    \* remediate: pastAnalysis
    postMortem,         \* what reporter.generatePostMortem returned last
    searches,           \* searchOutages: the searches started, in start order
    outageSignals,      \* searchOutages: signals (pushed as searches complete)
    tavilySignals       \* detect: tavilySignals (what searchOutages returned)

vars == <<pc, severity, services, remediationActions, resolvedAt,
          pastRemediations, pastContext, renderServices, renderCalls,
          storeLog, validation, notices, statusChecks, signalBatch, incident,
          incidents, lookups, runs, graph, similar, historyAnalysis,
          postMortem, searches, outageSignals, tavilySignals>>

\* What lies outside the single run: the invocations the server has started,
\* the content of the store, the history lookup taken on its own, and the
\* text of the post-mortem
outsideRunVars == <<runs, graph, similar, historyAnalysis, postMortem>>

\* The locals of the detector's outage search
detectorVars == <<searches, outageSignals, tavilySignals>>

\* The variables of the detection and analysis stages
analyzerVars == <<signalBatch, incident>>

-----------------------------------------------------------------------------
(* Bounds of the model *)

\* services in one compute-target listing
MaxListing == 2

\* past remediations returned by the history lookup
MaxPast == 1

\* documents returned by the memory search
MaxDocs == 1

-----------------------------------------------------------------------------
(* Strings: String.prototype.toLowerCase and String.prototype.includes *)

UpperChars == <<"A","B","C","D","E","F","G","H","I","J","K","L","M",
                "N","O","P","Q","R","S","T","U","V","W","X","Y","Z">>
LowerChars == <<"a","b","c","d","e","f","g","h","i","j","k","l","m",
                "n","o","p","q","r","s","t","u","v","w","x","y","z">>

\* The lower-case letter of each upper-case letter
LowerOf ==
    [c \in {UpperChars[i] : i \in 1..26} |->
        LowerChars[CHOOSE i \in 1..26 : UpperChars[i] = c]]

toLowerChar(c) == IF c \in DOMAIN LowerOf THEN LowerOf[c] ELSE c

toLowerCase(s) == [i \in 1..Len(s) |-> toLowerChar(s[i])]

includes(hay, needle) ==
    \E i \in 1..(Len(hay) - Len(needle) + 1) :
        \A j \in 1..Len(needle) : hay[i + j - 1] = needle[j]

-----------------------------------------------------------------------------
(* Fixed tables of the program and the environment's value domains *)

Severities == {"info", "warning", "critical"}

\* KNOWN_SERVICES, abridged to two catalog entries, in catalog order
KNOWN_SERVICES == << <<"a","w","s">>, <<"s","3">> >>

\* escalationKeywords of extractSensoGuidance
escalationKeywords ==
    << <<"s","c","a","l","e">>,
       <<"e","s","c","a","l","a","t">>,
       <<"c","a","p","a","c","i","t","y">>,
       <<"i","n","s","u","f","f","i","c","i","e","n","t">>,
       <<"r","e","s","t","a","r","t"," ","f","a","i","l","e","d">>,
       <<"r","e","s","t","a","r","t"," ","a","l","o","n","e">> >>

\* Services that may exist on the compute target: "AWS-s3" contains both
\* catalog names up to case, "aws" is contained in it, "ghost" matches none.
RenderPool ==
    { [id |-> "srv-1", name |-> <<"A","W","S","-","s","3">>],
      [id |-> "srv-2", name |-> <<"a","w","s">>],
      [id |-> "srv-3", name |-> <<"g","h","o","s","t">>] }

RenderStatuses == {"active", "suspended"}

\* Contents of documents the memory search may return
DocContents ==
    { <<"U","p","S","c","a","l","e","d">>,
      <<"R","e","s","t","a","r","t"," ","o","k">> }

PastRemediation == [type : {"restart", "scale"}, success : BOOLEAN]

\* Sequences over S of length at most n
SeqsUpTo(S, n) == UNION {[1..m -> S] : m \in 0..n}

\* Listings: sequences of distinct services of the pool, each with a status
Injective(f) == \A i, j \in DOMAIN f : i # j => f[i].id # f[j].id

Listings ==
    {l \in SeqsUpTo([id : {s.id : s \in RenderPool},
                     name : {s.name : s \in RenderPool},
                     status : RenderStatuses], MaxListing) :
        /\ Injective(l)
        /\ \A i \in DOMAIN l : [id |-> l[i].id, name |-> l[i].name] \in RenderPool}

\* validateRemediation reads only the id and the name of a listed service
ValidationListings ==
    {[i \in DOMAIN l |-> [id |-> l[i].id, name |-> l[i].name]] : l \in Listings}

\* incident.services as extractServices builds it: KNOWN_SERVICES filtered,
\* so a subsequence of the catalog in catalog order
DeclaredServices ==
    {SelectSeq(KNOWN_SERVICES, LAMBDA s : s \in keep) :
        keep \in SUBSET {KNOWN_SERVICES[i] : i \in DOMAIN KNOWN_SERVICES}}

-----------------------------------------------------------------------------
(* RemediatorAgent helpers *)

\* An action's `validated` field is absent until validateRemediation sets it
Unset == "unset"

\* createAction: the id is unique (uuid); here the position in creation order.
\* svcIdx is a history field: the index in incident.services of the declared
\* service whose match the action was created for (0 when there is none).
createAction(id, type, target, description, success, svcIdx) ==
    [id |-> id, type |-> type, targetService |-> target,
     description |-> description, success |-> success,
     validated |-> Unset, svcIdx |-> svcIdx, cause |-> 0]

\* Variant of findMatch: when nothing matches, the first listed service is
\* taken instead
findMatchOrFirst(listing, x) ==
    LET hits == {i \in DOMAIN listing :
                    includes(toLowerCase(listing[i].name), toLowerCase(x))}
    IN  IF hits = {} THEN (IF listing = <<>> THEN 0 ELSE 1)
        ELSE CHOOSE i \in hits : \A j \in hits : i <= j

\* renderServices.find(rs => rs.name.toLowerCase().includes(x.toLowerCase())):
\* index of the first match, 0 when find returns undefined
findMatch(listing, x) ==
    LET hits == {i \in DOMAIN listing :
                    includes(toLowerCase(listing[i].name), toLowerCase(x))}
    IN  IF hits = {} THEN 0 ELSE CHOOSE i \in hits : \A j \in hits : i <= j

\* Variant of analyzePastRemediations: failures of every action type count
analyzePastRemediationsAnyType(remediations) ==
    LET failed == SelectSeq(remediations, LAMBDA r : ~r.success)
    IN  [restartFailRate |->
            IF Len(remediations) > 0
            THEN [num |-> Len(failed), den |-> Len(remediations)]
            ELSE [num |-> 0, den |-> 1],
         hadFailedRestarts |-> Len(failed) > 0]

\* analyzePastRemediations: restartFailRate is kept as the fraction num/den
\* the code divides (0 is 0/1); scaleSuccessRate is read nowhere
analyzePastRemediations(remediations) ==
    LET restarts == SelectSeq(remediations, LAMBDA r : r.type = "restart")
        failedRestarts == SelectSeq(restarts, LAMBDA r : ~r.success)
    IN  [restartFailRate |->
            IF Len(restarts) > 0
            THEN [num |-> Len(failedRestarts), den |-> Len(restarts)]
            ELSE [num |-> 0, den |-> 1],
         hadFailedRestarts |-> Len(failedRestarts) > 0]

\* One guidance entry per document that contains an escalation keyword
\* (the first keyword found; the loop breaks on it)
extractSensoGuidance(docs) ==
    LET kwOf(doc) ==
            LET lower == toLowerCase(doc.content)
                found == {k \in DOMAIN escalationKeywords :
                             includes(lower, escalationKeywords[k])}
            IN  IF found = {} THEN <<>>
                ELSE <<escalationKeywords[CHOOSE k \in found :
                                              \A j \in found : k <= j]>>
        RECURSIVE collect(_)
        collect(i) == IF i > Len(docs) THEN <<>>
                      ELSE kwOf(docs[i]) \o collect(i + 1)
    IN  collect(1)

\* Variant of shouldEscalate: the documents' guidance is not consulted
shouldEscalateIgnoringGuidance(sev, pastAnalysis, sensoGuidance) ==
    sev = "warning" /\ pastAnalysis.hadFailedRestarts

\* Variant of shouldEscalate: every warning escalates
shouldEscalateEveryWarning(sev, pastAnalysis, sensoGuidance) ==
    sev = "warning"

shouldEscalate(sev, pastAnalysis, sensoGuidance) ==
    IF sev = "warning" /\ pastAnalysis.hadFailedRestarts THEN TRUE
    ELSE IF sev = "warning" /\ Len(sensoGuidance) > 0 THEN TRUE
    ELSE FALSE

\* Variant of strategyFor: no critical branch, a critical incident falls
\* through to the restart-only branch
strategyForWithoutCriticalBranch(match, sev, pastAnalysis, sensoGuidance) ==
    IF match.status = "suspended" THEN
        << [call |-> "resume", numInstances |-> 0, type |-> "restart",
            description |-> "Resumed suspended service"] >>
    ELSE IF shouldEscalate(sev, pastAnalysis, sensoGuidance) THEN
        << [call |-> "restart", numInstances |-> 0, type |-> "restart",
            description |-> "Restarted service"],
           [call |-> "scale", numInstances |-> 2, type |-> "scale",
            description |-> "Scaled to 2 instances"] >>
    ELSE
        << [call |-> "restart", numInstances |-> 0, type |-> "restart",
            description |-> "Restarted service"] >>

\* The if/else-if chain of remediate for one matched service: the calls to
\* issue, in order, each with the action type and description recorded for it
strategyFor(match, sev, pastAnalysis, sensoGuidance) ==
    IF match.status = "suspended" THEN
        << [call |-> "resume", numInstances |-> 0, type |-> "restart",
            description |-> "Resumed suspended service"] >>
    ELSE IF shouldEscalate(sev, pastAnalysis, sensoGuidance)
            \/ sev = "critical" THEN
        << [call |-> "restart", numInstances |-> 0, type |-> "restart",
            description |-> "Restarted service"],
           [call |-> "scale", numInstances |-> 2, type |-> "scale",
            description |-> "Scaled to 2 instances"] >>
    ELSE
        << [call |-> "restart", numInstances |-> 0, type |-> "restart",
            description |-> "Restarted service"] >>

\* One compute-target call with its boolean result, then createAction,
\* actions.push and neo4j.addRemediation.  w = [actions, calls, store].
executeStep(w, step, match, ok, svcIdx) ==
    LET action == createAction(Len(w.actions) + 1, step.type, match.name,
                               step.description, ok, svcIdx)
    IN  [actions |-> Append(w.actions, action),
         calls |-> Append(w.calls,
                     [op |-> step.call, serviceId |-> match.id,
                      numInstances |-> step.numInstances, ok |-> ok,
                      svcIdx |-> svcIdx, stage |-> "strategy"]),
         store |-> Append(w.store,
                     [op |-> "addRemediation", actionId |-> action.id,
                      type |-> action.type])]

\* Variant of executeChain: a call that returns false ends the chain
RECURSIVE executeChainStopOnFailure(_, _, _, _, _)
executeChainStopOnFailure(w, steps, j, match, svcIdx) ==
    IF j > Len(steps) THEN {w}
    ELSE UNION { IF ok
                 THEN executeChainStopOnFailure(
                          executeStep(w, steps[j], match, ok, svcIdx),
                          steps, j + 1, match, svcIdx)
                 ELSE {executeStep(w, steps[j], match, ok, svcIdx)}
                 : ok \in BOOLEAN }

\* All results of executing steps j.. of a chain.  Every call may return true
\* or false; the result is only recorded, the next step is executed either way.
RECURSIVE executeChain(_, _, _, _, _)
executeChain(w, steps, j, match, svcIdx) ==
    IF j > Len(steps) THEN {w}
    ELSE UNION { executeChain(executeStep(w, steps[j], match, ok, svcIdx),
                              steps, j + 1, match, svcIdx)
                 : ok \in BOOLEAN }

\* for (const svcName of incident.services) { ... }
RECURSIVE remediateLoop(_, _, _, _, _, _)
remediateLoop(w, k, listing, sev, pastAnalysis, sensoGuidance) ==
    IF k > Len(services) THEN {w}
    ELSE LET m == findMatch(listing, services[k])
         IN  IF m = 0
             THEN remediateLoop(w, k + 1, listing, sev, pastAnalysis, sensoGuidance)
             ELSE UNION { remediateLoop(w2, k + 1, listing, sev,
                                        pastAnalysis, sensoGuidance) :
                            w2 \in executeChain(w,
                                     strategyFor(listing[m], sev, pastAnalysis,
                                                 sensoGuidance),
                                     1, listing[m], k) }

\* incident.services[0] ?? 'unknown'
primaryService == IF Len(services) > 0 THEN services[1]
                  ELSE <<"u","n","k","n","o","w","n">>

\* Variant of alertFallback: the alert always names "unknown"
alertFallbackUnknownTarget(w) ==
    IF Len(w.actions) = 0
    THEN LET action == createAction(1, "alert", <<"u","n","k","n","o","w","n">>,
                                    "Alert: no auto-remediation available",
                                    TRUE, 0)
         IN  [w EXCEPT !.actions = <<action>>,
                       !.store = Append(w.store,
                                   [op |-> "addRemediation",
                                    actionId |-> action.id,
                                    type |-> action.type])]
    ELSE w

\* Step 7 of remediate: no action so far means no service matched
alertFallback(w) ==
    IF Len(w.actions) = 0
    THEN LET action == createAction(1, "alert", primaryService,
                                    "Alert: no auto-remediation available",
                                    TRUE, 0)
         IN  [w EXCEPT !.actions = <<action>>,
                       !.store = Append(w.store,
                                   [op |-> "addRemediation",
                                    actionId |-> action.id,
                                    type |-> action.type])]
    ELSE w

\* Variant of remediate: the info check is missing
remediateWithoutInfoCheck(w0, sev, past, docs, listing) ==
    { alertFallback(w) :
        w \in remediateLoop(w0, 1, listing, sev,
                            analyzePastRemediations(past),
                            extractSensoGuidance(docs)) }

\* Steps 3-7 of remediate: all possible results for one history and listing
remediate(w0, sev, past, docs, listing) ==
    IF sev = "info"
    THEN { [w0 EXCEPT !.actions =
              << createAction(1, "noop", <<"n","o","n","e">>,
                     "Info-level incident, monitoring only", TRUE, 0) >>] }
    ELSE { alertFallback(w) :
             w \in remediateLoop(w0, 1, listing, sev,
                                 analyzePastRemediations(past),
                                 extractSensoGuidance(docs)) }

\* Variant of actionNotices: one notice for the whole list of actions
actionNoticesOnePerRun(actions) == <<"remediation_action">>

\* The notices runPipeline broadcasts for the actions remediate returned
actionNotices(actions) == [i \in 1..Len(actions) |-> "remediation_action"]

-----------------------------------------------------------------------------
(* AnalyzerAgent (src/src/agents/analyzer.ts): text of a signal batch *)

\* Bound: the largest number of signals in a batch
MaxSignals == 2

\* analyze: titles longer than this are kept as the incident title
MinTitleLength == 10

\* analyze: title.substring(0, 200)
MaxTitleLength == 200

Digits == {"0","1","2","3","4","5","6","7","8","9"}

\* The characters a regular expression counts as word characters (\w)
WordChars ==
    {UpperChars[i] : i \in 1..26} \cup {LowerChars[i] : i \in 1..26}
        \cup Digits \cup {"_"}

\* 'outage', 'down', 'critical', 'major', 'complete failure', 'data loss',
\* 'security breach'
CRITICAL_KEYWORDS ==
    << <<"o","u","t","a","g","e">>,
       <<"d","o","w","n">>,
       <<"c","r","i","t","i","c","a","l">>,
       <<"m","a","j","o","r">>,
       <<"c","o","m","p","l","e","t","e"," ","f","a","i","l","u","r","e">>,
       <<"d","a","t","a"," ","l","o","s","s">>,
       <<"s","e","c","u","r","i","t","y"," ","b","r","e","a","c","h">> >>

\* 'degraded', 'slow', 'intermittent', 'partial', 'elevated error', 'latency'
WARNING_KEYWORDS ==
    << <<"d","e","g","r","a","d","e","d">>,
       <<"s","l","o","w">>,
       <<"i","n","t","e","r","m","i","t","t","e","n","t">>,
       <<"p","a","r","t","i","a","l">>,
       <<"e","l","e","v","a","t","e","d"," ","e","r","r","o","r">>,
       <<"l","a","t","e","n","c","y">> >>

\* The error patterns, in the order extractErrors applies them.  statusCode
\* marks the pattern \b[45]\d{2}\b; the others are alternatives of literals.
ERROR_PATTERNS ==
    <<
    \* /\b[45]\d{2}\b/g
       [statusCode |-> TRUE, ignoreCase |-> FALSE,
        alts |-> <<>>],
    \* /timeout/gi
       [statusCode |-> FALSE, ignoreCase |-> TRUE,
        alts |-> << <<"t","i","m","e","o","u","t">> >>],
    \* /connection refused/gi
       [statusCode |-> FALSE, ignoreCase |-> TRUE,
        alts |-> << <<"c","o","n","n","e","c","t","i","o","n"," ","r","e",
                      "f","u","s","e","d">> >>],
    \* /ECONNREFUSED/g
       [statusCode |-> FALSE, ignoreCase |-> FALSE,
        alts |-> << <<"E","C","O","N","N","R","E","F","U","S","E","D">> >>],
    \* /ETIMEDOUT/g
       [statusCode |-> FALSE, ignoreCase |-> FALSE,
        alts |-> << <<"E","T","I","M","E","D","O","U","T">> >>],
    \* /OOM|out of memory/gi
       [statusCode |-> FALSE, ignoreCase |-> TRUE,
        alts |-> << <<"O","O","M">>,
                    <<"o","u","t"," ","o","f"," ","m","e","m","o","r","y">> >>],
    \* /segfault|segmentation fault/gi
       [statusCode |-> FALSE, ignoreCase |-> TRUE,
        alts |-> << <<"s","e","g","f","a","u","l","t">>,
                    <<"s","e","g","m","e","n","t","a","t","i","o","n"," ",
                      "f","a","u","l","t">> >>],
    \* /ENOMEM/g
       [statusCode |-> FALSE, ignoreCase |-> FALSE,
        alts |-> << <<"E","N","O","M","E","M">> >>],
    \* /ENOSPC/g
       [statusCode |-> FALSE, ignoreCase |-> FALSE,
        alts |-> << <<"E","N","O","S","P","C">> >>]
    >>

\* The signals a batch is drawn from: health-check, search and scout signals
\* whose texts carry the keywords, error patterns, cues and service names the
\* analyzer looks for, alone (a batch of one) or combined (larger batches).
\* A health-check signal has no url; the scout signal points at the same
\* page as the first search signal.
SignalPool ==
    <<
    \* tavily: "AWS outage reported" / "503 errors on login"
       [source |-> "tavily",
        url |-> "https://status.aws",
        title |-> <<"A","W","S"," ","o","u","t","a","g","e"," ","r","e","p","o",
                 "r","t","e","d">>,
        summary |-> <<"5","0","3"," ","e","r","r","o","r","s"," ","o","n"," ",
                   "l","o","g","i","n">>],
    \* render_health: "Service unhealthy: ghost" / "status suspended"
       [source |-> "render_health",
        url |-> Unset,
        title |-> <<"S","e","r","v","i","c","e"," ","u","n","h","e","a","l","t",
                 "h","y",":"," ","g","h","o","s","t">>,
        summary |-> <<"s","t","a","t","u","s"," ","s","u","s","p","e","n","d",
                   "e","d">>],
    \* yutori: "S3 latency" / "request timeout"
       [source |-> "yutori",
        url |-> "https://status.aws",
        title |-> <<"S","3"," ","l","a","t","e","n","c","y">>,
        summary |-> <<"r","e","q","u","e","s","t"," ","t","i","m","e","o","u",
                   "t">>],
    \* tavily: "Worker killed" / "OOM at night"
       [source |-> "tavily",
        url |-> "https://report/4",
        title |-> <<"W","o","r","k","e","r"," ","k","i","l","l","e","d">>,
        summary |-> <<"O","O","M"," ","a","t"," ","n","i","g","h","t">>],
    \* tavily: "Volume full" / "no space on disk"
       [source |-> "tavily",
        url |-> "https://report/5",
        title |-> <<"V","o","l","u","m","e"," ","f","u","l","l">>,
        summary |-> <<"n","o"," ","s","p","a","c","e"," ","o","n"," ","d","i",
                   "s","k">>],
    \* tavily: "Resolver errors" / "DNS lookup failed"
       [source |-> "tavily",
        url |-> "https://report/6",
        title |-> <<"R","e","s","o","l","v","e","r"," ","e","r","r","o","r",
                 "s">>,
        summary |-> <<"D","N","S"," ","l","o","o","k","u","p"," ","f","a","i",
                   "l","e","d">>],
    \* tavily: "Handshake errors" / "TLS certificate expired"
       [source |-> "tavily",
        url |-> "https://report/7",
        title |-> <<"H","a","n","d","s","h","a","k","e"," ","e","r","r","o","r",
                 "s">>,
        summary |-> <<"T","L","S"," ","c","e","r","t","i","f","i","c","a","t",
                   "e"," ","e","x","p","i","r","e","d">>],
    \* tavily: "Release notes" / "rollback of last deploy"
       [source |-> "tavily",
        url |-> "https://report/8",
        title |-> <<"R","e","l","e","a","s","e"," ","n","o","t","e","s">>,
        summary |-> <<"r","o","l","l","b","a","c","k"," ","o","f"," ","l","a",
                   "s","t"," ","d","e","p","l","o","y">>],
    \* tavily: "Backup report" / "delayed data"
       [source |-> "tavily",
        url |-> "https://report/9",
        title |-> <<"B","a","c","k","u","p"," ","r","e","p","o","r","t">>,
        summary |-> <<"d","e","l","a","y","e","d"," ","d","a","t","a">>],
    \* tavily: "Loss" / "x503 and 404"
       [source |-> "tavily",
        url |-> "https://report/10",
        title |-> <<"L","o","s","s">>,
        summary |-> <<"x","5","0","3"," ","a","n","d"," ","4","0","4">>],
    \* tavily: "Socket errors" / "connect ETIMEDOUT"
       [source |-> "tavily",
        url |-> "https://report/11",
        title |-> <<"S","o","c","k","e","t"," ","e","r","r","o","r","s">>,
        summary |-> <<"c","o","n","n","e","c","t"," ","E","T","I","M","E","D",
                   "O","U","T">>],
    \* tavily: "Write errors" / "ENOSPC"
       [source |-> "tavily",
        url |-> "https://report/12",
        title |-> <<"W","r","i","t","e"," ","e","r","r","o","r","s">>,
        summary |-> <<"E","N","O","S","P","C">>]
    >>

\* The batches handed to the analyzer: up to MaxSignals signals of the pool,
\* in any order, repetitions included; the empty batch is one of them
SignalBatches ==
    UNION { [1..n -> {SignalPool[i] : i \in DOMAIN SignalPool}] :
              n \in 0..MaxSignals }

\* Array.prototype.join(sep) on an array of strings
RECURSIVE join(_, _)
join(parts, sep) ==
    IF parts = <<>> THEN <<>>
    ELSE IF Len(parts) = 1 THEN parts[1]
    ELSE parts[1] \o sep \o join(Tail(parts), sep)

\* signals.map(s => `${s.title} ${s.summary}`).join(' ')
allTextOf(signals) ==
    join([i \in 1..Len(signals) |->
            signals[i].title \o <<" ">> \o signals[i].summary], <<" ">>)

\* extractServices: KNOWN_SERVICES.filter(svc => lower.includes(svc))
extractServices(text) ==
    SelectSeq(KNOWN_SERVICES, LAMBDA svc : includes(toLowerCase(text), svc))

\* \b[45]\d{2}\b matches at position i of text
statusCodeAt(text, i) ==
    /\ i + 2 <= Len(text)
    /\ text[i] \in {"4", "5"}
    /\ text[i + 1] \in Digits
    /\ text[i + 2] \in Digits
    /\ (i = 1 \/ text[i - 1] \notin WordChars)
    /\ (i + 3 > Len(text) \/ text[i + 3] \notin WordChars)

\* The literal lit matches at position i of text (flag i: ignoring case)
literalAt(text, i, lit, ignoreCase) ==
    /\ i + Len(lit) - 1 <= Len(text)
    /\ \A j \in 1..Len(lit) :
          IF ignoreCase
          THEN toLowerChar(text[i + j - 1]) = toLowerChar(lit[j])
          ELSE text[i + j - 1] = lit[j]

\* Length of the match of pattern at position i of text, 0 when there is
\* none; of several alternatives the first that matches is taken
matchLengthAt(text, i, pattern) ==
    IF pattern.statusCode THEN (IF statusCodeAt(text, i) THEN 3 ELSE 0)
    ELSE LET hits == {a \in DOMAIN pattern.alts :
                        literalAt(text, i, pattern.alts[a], pattern.ignoreCase)}
         IN  IF hits = {} THEN 0
             ELSE Len(pattern.alts[CHOOSE a \in hits : \A b \in hits : a <= b])

\* text.match(pattern) for a global pattern: the matches among the
\* positions P that start at or after position from, left to right, not
\* overlapping, as they are written in the text
RECURSIVE matchAll(_, _, _, _)
matchAll(text, from, pattern, P) ==
    LET Q == {i \in P : i >= from}
    IN  IF Q = {} THEN <<>>
        ELSE LET i == CHOOSE q \in Q : \A r \in Q : q <= r
                 n == matchLengthAt(text, i, pattern)
             IN  <<SubSeq(text, i, i + n - 1)>>
                    \o matchAll(text, i + n, pattern, P)

\* text.match(pattern): P is the set of positions where the pattern matches
matchOf(text, pattern) ==
    matchAll(text, 1, pattern,
             {i \in 1..Len(text) : matchLengthAt(text, i, pattern) > 0})

\* for (const m of matches) errors.add(m): a Set keeps insertion order
RECURSIVE addAll(_, _)
addAll(errors, matches) ==
    IF matches = <<>> THEN errors
    ELSE addAll(IF \E e \in DOMAIN errors : errors[e] = matches[1]
                THEN errors ELSE Append(errors, matches[1]),
                Tail(matches))

\* for (const pattern of ERROR_PATTERNS) ..., from pattern p on
RECURSIVE extractErrorsFrom(_, _, _)
extractErrorsFrom(text, p, errors) ==
    IF p > Len(ERROR_PATTERNS) THEN errors
    ELSE extractErrorsFrom(text, p + 1,
                           addAll(errors, matchOf(text, ERROR_PATTERNS[p])))

extractErrors(text) == extractErrorsFrom(text, 1, <<>>)

\* Some keyword of the list occurs in the text
someKeyword(keywords, lower) ==
    \E k \in DOMAIN keywords : includes(lower, keywords[k])

\* Variant of classifySeverity: the health-check source is looked at first
classifySeverityHealthFirst(text, signals) ==
    LET lower == toLowerCase(text)
        hasRenderHealth ==
            \E i \in DOMAIN signals : signals[i].source = "render_health"
    IN  IF hasRenderHealth THEN "warning"
        ELSE IF someKeyword(CRITICAL_KEYWORDS, lower) THEN "critical"
        ELSE IF someKeyword(WARNING_KEYWORDS, lower) THEN "warning"
        ELSE "info"

\* classifySeverity(text, signals)
classifySeverity(text, signals) ==
    LET lower == toLowerCase(text)
        hasRenderHealth ==
            \E i \in DOMAIN signals : signals[i].source = "render_health"
    IN  IF someKeyword(CRITICAL_KEYWORDS, lower) THEN "critical"
        ELSE IF hasRenderHealth THEN "warning"
        ELSE IF someKeyword(WARNING_KEYWORDS, lower) THEN "warning"
        ELSE "info"

\* e.match(/5\d{2}/): a 5 followed by two digits somewhere in e
matches5xx(e) ==
    \E i \in 1..(Len(e) - 2) :
        e[i] = "5" /\ e[i + 1] \in Digits /\ e[i + 2] \in Digits

\* Variant of inferRootCause: the timeout cue is looked at before the error
\* codes
inferRootCauseTimeoutFirst(text, errors) ==
    LET lower == toLowerCase(text)
    IN  IF includes(lower, <<"t","i","m","e","o","u","t">>) THEN "Service timeout"
        ELSE IF \E e \in DOMAIN errors : matches5xx(errors[e])
        THEN "Server-side error detected"
        ELSE IF includes(lower, <<"o","o","m">>) THEN "Resource exhaustion (memory)"
        ELSE IF includes(lower, <<"d","i","s","k">>) THEN "Resource exhaustion (disk)"
        ELSE IF includes(lower, <<"d","n","s">>) THEN "DNS resolution failure"
        ELSE IF includes(lower, <<"t","l","s">>) THEN "TLS/SSL certificate issue"
        ELSE IF includes(lower, <<"d","e","p","l","o","y">>) THEN "Bad deployment"
        ELSE Unset

\* inferRootCause(text, errors); Unset stands for undefined.  The needles
\* 'ETIMEDOUT' and 'ENOSPC' are searched, as written, in the lower-cased text.
inferRootCause(text, errors) ==
    LET lower == toLowerCase(text)
    IN  IF \E e \in DOMAIN errors : matches5xx(errors[e])
        THEN "Server-side error detected"
        ELSE IF \/ includes(lower, <<"t","i","m","e","o","u","t">>)
                \/ includes(lower, <<"E","T","I","M","E","D","O","U","T">>)
        THEN "Service timeout"
        ELSE IF \/ includes(lower, <<"o","o","m">>)
                \/ includes(lower, <<"o","u","t"," ","o","f"," ","m","e","m","o","r","y">>)
        THEN "Resource exhaustion (memory)"
        ELSE IF \/ includes(lower, <<"d","i","s","k">>)
                \/ includes(lower, <<"E","N","O","S","P","C">>)
        THEN "Resource exhaustion (disk)"
        ELSE IF includes(lower, <<"d","n","s">>)
        THEN "DNS resolution failure"
        ELSE IF \/ includes(lower, <<"c","e","r","t","i","f","i","c","a","t","e">>)
                \/ includes(lower, <<"s","s","l">>)
                \/ includes(lower, <<"t","l","s">>)
        THEN "TLS/SSL certificate issue"
        ELSE IF \/ includes(lower, <<"d","e","p","l","o","y">>)
                \/ includes(lower, <<"r","o","l","l","b","a","c","k">>)
        THEN "Bad deployment"
        ELSE Unset

\* 'Detected anomaly in ', ', ', 'unknown service'
DetectedAnomalyIn ==
    <<"D","e","t","e","c","t","e","d"," ","a","n","o","m","a","l","y"," ","i","n"," ">>

unknownService == <<"u","n","k","n","o","w","n"," ","s","e","r","v","i","c","e">>

\* analyze returned null
NoIncident == [null |-> TRUE]

\* incident.postMortem before the reporter has run
NoPostMortem == [null |-> TRUE]

\* Variant of analyze: an incident is built for the empty batch as well
analyzeWithoutEmptyCheck(signals) ==
    LET allText == allTextOf(signals)
        errors == extractErrors(allText)
    IN  [null |-> FALSE,
         title |-> <<>>,
         severity |-> classifySeverity(allText, signals),
         services |-> extractServices(allText),
         errors |-> errors,
         rootCause |-> inferRootCause(allText, errors),
         signals |-> signals]

\* analyze(signals): the incident built from the batch (its generated id,
\* its timestamp and the summary text, which no decision reads, are left
\* out), or NoIncident for the empty batch
analyze(signals) ==
    IF Len(signals) = 0 THEN NoIncident
    ELSE LET allText == allTextOf(signals)
             services_ == extractServices(allText)
             errors == extractErrors(allText)
             primarySignal == signals[1]
             joined == join(services_, <<",", " ">>)
             title == IF Len(primarySignal.title) > MinTitleLength
                      THEN primarySignal.title
                      ELSE DetectedAnomalyIn
                             \o (IF joined = <<>> THEN unknownService
                                 ELSE joined)
         IN  [null |-> FALSE,
              title |-> SubSeq(title, 1,
                               IF Len(title) < MaxTitleLength
                               THEN Len(title) ELSE MaxTitleLength),
              severity |-> classifySeverity(allText, signals),
              services |-> services_,
              errors |-> errors,
              rootCause |-> inferRootCause(allText, errors),
              signals |-> signals]

-----------------------------------------------------------------------------
(* The pipeline run *)

Init ==
    /\ pc = "idle"
    /\ severity = "info"
    /\ services = <<>>
    /\ remediationActions = <<>>
    /\ resolvedAt = FALSE
    /\ pastRemediations = <<>>
    /\ pastContext = <<>>
    /\ renderServices = <<>>
    /\ renderCalls = <<>>
    /\ storeLog = <<>>
    /\ validation = [healthy |-> FALSE, retried |-> FALSE]
    /\ notices = <<>>
    /\ statusChecks = <<>>
    /\ signalBatch = <<>>
    /\ incident = NoIncident
    /\ incidents = <<>>
    /\ lookups = <<>>
    /\ runs = <<>>
    /\ graph = {}
    /\ similar = <<>>
    /\ historyAnalysis = analyzePastRemediations(<<>>)
    /\ postMortem = NoPostMortem
    /\ searches = <<>>
    /\ outageSignals = <<>>
    /\ tavilySignals = <<>>

\* Variant of Analyze: the incident is not written to the store before the
\* strategy starts
AnalyzeWithoutStore ==
    /\ pc = "idle"
    /\ \E sev \in Severities, svcs \in DeclaredServices :
        /\ severity' = sev
        /\ services' = svcs
    /\ notices' = <<"pipeline_start", "detection_complete",
                    "analysis_complete", "incident">>
    /\ pc' = "remediate"
    /\ UNCHANGED <<remediationActions, resolvedAt, pastRemediations,
                   pastContext, renderServices, renderCalls, validation,
                   statusChecks, signalBatch, incident, storeLog>>
    /\ UNCHANGED <<incidents, lookups>>
    /\ UNCHANGED outsideRunVars
    /\ UNCHANGED detectorVars

\* runPipeline up to the stored incident: detection, analyzer.analyze
\* (severity and services of the incident it returns), neo4j.createIncident.
\* This step stands for the whole of Detect and AnalyzeSignals below: the
\* batch is not kept, only the classification the later stages read.
Analyze ==
    /\ pc = "idle"
    /\ \E sev \in Severities, svcs \in DeclaredServices :
        /\ severity' = sev
        /\ services' = svcs
    /\ notices' = <<"pipeline_start", "detection_complete",
                    "analysis_complete", "incident">>
    /\ storeLog' = <<[op |-> "createIncident", actionId |-> 0, type |-> "none"]>>
    /\ pc' = "remediate"
    /\ UNCHANGED <<remediationActions, resolvedAt, pastRemediations,
                   pastContext, renderServices, renderCalls, validation,
                   statusChecks, signalBatch, incident>>
    /\ UNCHANGED <<incidents, lookups>>
    /\ UNCHANGED outsideRunVars
    /\ UNCHANGED detectorVars

\* Variant of Remediate: a failed compute-target call raises out of the run
RemediateAbortingOnFailedCall ==
    /\ pc = "remediate"
    /\ \E past \in SeqsUpTo(PastRemediation, MaxPast),
          docs \in SeqsUpTo([content : DocContents], MaxDocs),
          listing \in IF severity = "info" THEN {<<>>} ELSE Listings :
       \E w \in remediate([actions |-> <<>>, calls |-> renderCalls,
                           store |-> storeLog],
                          severity, past, docs, listing) :
          /\ pastRemediations' = past
          /\ pastContext' = docs
          /\ renderServices' = listing
          /\ remediationActions' = w.actions
          /\ renderCalls' = w.calls
          /\ storeLog' = w.store
          /\ IF \E c \in DOMAIN w.calls : ~w.calls[c].ok
             THEN /\ pc' = "error"
                  /\ notices' = Append(notices, "pipeline_error")
             ELSE /\ pc' = "announce"
                  /\ notices' = notices
    /\ UNCHANGED <<severity, services, resolvedAt, validation,
                   statusChecks, signalBatch, incident>>
    /\ lookups' = lookups \o <<"findSimilarIncidents", "searchContext",
                              "searchRemediation">>
                          \o (IF severity = "info" THEN <<>>
                              ELSE <<"listServices">>)
    /\ UNCHANGED incidents
    /\ UNCHANGED outsideRunVars
    /\ UNCHANGED detectorVars

\* remediator.remediate(incident); incident.remediationActions = actions.
\* The history lookup runs for every severity; the listing is fetched only
\* when the severity is not info.
Remediate ==
    /\ pc = "remediate"
    /\ \E past \in SeqsUpTo(PastRemediation, MaxPast),
          docs \in SeqsUpTo([content : DocContents], MaxDocs),
          listing \in IF severity = "info" THEN {<<>>} ELSE Listings :
       \E w \in remediate([actions |-> <<>>, calls |-> renderCalls,
                           store |-> storeLog],
                          severity, past, docs, listing) :
          /\ pastRemediations' = past
          /\ pastContext' = docs
          /\ renderServices' = listing
          /\ remediationActions' = w.actions
          /\ renderCalls' = w.calls
          /\ storeLog' = w.store
    /\ pc' = "announce"
    /\ UNCHANGED <<severity, services, resolvedAt, validation, notices,
                   statusChecks, signalBatch, incident>>
    /\ lookups' = lookups \o <<"findSimilarIncidents", "searchContext",
                              "searchRemediation">>
                          \o (IF severity = "info" THEN <<>>
                              ELSE <<"listServices">>)
    /\ UNCHANGED incidents
    /\ UNCHANGED outsideRunVars
    /\ UNCHANGED detectorVars

\* runPipeline after remediate has returned: one remediation_action notice
\* per returned action.  The locals of remediate (history, listing) are gone.
AnnounceActions ==
    /\ pc = "announce"
    /\ notices' = notices \o actionNotices(remediationActions)
    /\ pastRemediations' = <<>>
    /\ pastContext' = <<>>
    /\ renderServices' = <<>>
    /\ pc' = "validate"
    /\ UNCHANGED <<severity, services, remediationActions, resolvedAt,
                   renderCalls, storeLog, validation, statusChecks, signalBatch, incident>>
    /\ UNCHANGED <<incidents, lookups>>
    /\ UNCHANGED outsideRunVars
    /\ UNCHANGED detectorVars

\* Variant of escalationFor: an unhealthy restart is escalated straight to
\* an alert
escalationForAlertOnly(type) ==
    IF type \in {"restart", "scale"} THEN
        << [call |-> "none", numInstances |-> 0, type |-> "alert",
            description |-> "Escalation: still unhealthy after scale"] >>
    ELSE <<>>

\* Variant of escalationFor: an unhealthy scale is not escalated to an alert
escalationForRestartOnly(type) ==
    IF type = "restart" THEN
        << [call |-> "scale", numInstances |-> 2, type |-> "scale",
            description |-> "Escalation: scaled to 2 instances after restart failed"] >>
    ELSE <<>>

\* The escalation validateRemediation appends for an action validated
\* unhealthy: restart -> scale (one scaleService call), scale -> alert (no
\* call), nothing for any other type
escalationFor(type) ==
    IF type = "restart" THEN
        << [call |-> "scale", numInstances |-> 2, type |-> "scale",
            description |-> "Escalation: scaled to 2 instances after restart failed"] >>
    ELSE IF type = "scale" THEN
        << [call |-> "none", numInstances |-> 0, type |-> "alert",
            description |-> "Escalation: still unhealthy after scale"] >>
    ELSE <<>>

\* Variant of escalate: a failed check leaves allHealthy as it was
escalateKeepingHealthy(v, i, match) ==
    LET steps == escalationFor(v.actions[i].type)
        v1 == v
    IN  IF steps = <<>> THEN {v1}
        ELSE { LET action == [createAction(Len(v1.actions) + 1, steps[1].type,
                                match.name, steps[1].description,
                                IF steps[1].call = "none" THEN TRUE ELSE ok, 0)
                              EXCEPT !.cause = v.actions[i].id]
               IN  [v1 EXCEPT
                      !.actions = Append(v1.actions, action),
                      !.calls = IF steps[1].call = "none" THEN v1.calls
                                ELSE Append(v1.calls,
                                       [op |-> steps[1].call,
                                        serviceId |-> match.id,
                                        numInstances |-> steps[1].numInstances,
                                        ok |-> ok, svcIdx |-> 0,
                                        stage |-> "validation"]),
                      !.store = Append(v1.store,
                                  [op |-> "addRemediation",
                                   actionId |-> action.id, type |-> action.type]),
                      !.retried = TRUE]
               : ok \in IF steps[1].call = "none" THEN {TRUE} ELSE BOOLEAN }

\* Variant of escalate: the escalation action takes the place of the action
\* whose check failed instead of being pushed at the end
escalateReplacing(v, i, match) ==
    LET steps == escalationFor(v.actions[i].type)
        v1 == [v EXCEPT !.allHealthy = FALSE]
    IN  IF steps = <<>> THEN {v1}
        ELSE { LET action == [createAction(v.actions[i].id, steps[1].type,
                                match.name, steps[1].description,
                                IF steps[1].call = "none" THEN TRUE ELSE ok, 0)
                              EXCEPT !.cause = v.actions[i].id]
               IN  [v1 EXCEPT
                      !.actions = [v1.actions EXCEPT ![i] = action],
                      !.calls = IF steps[1].call = "none" THEN v1.calls
                                ELSE Append(v1.calls,
                                       [op |-> steps[1].call,
                                        serviceId |-> match.id,
                                        numInstances |-> steps[1].numInstances,
                                        ok |-> ok, svcIdx |-> 0,
                                        stage |-> "validation"]),
                      !.store = Append(v1.store,
                                  [op |-> "addRemediation",
                                   actionId |-> action.id, type |-> action.type]),
                      !.retried = TRUE]
               : ok \in IF steps[1].call = "none" THEN {TRUE} ELSE BOOLEAN }

\* Variant of escalate: the else before the scale branch is missing, so an
\* unhealthy restart pushes the scale action and the alert action as well
escalateMissingElse(v, i, match) ==
    LET type == v.actions[i].type
        v1 == [v EXCEPT !.allHealthy = FALSE]
        pushed(w, t, description, call, ok) ==
            LET action == [createAction(Len(w.actions) + 1, t, match.name,
                                        description, ok, 0)
                           EXCEPT !.cause = v.actions[i].id]
            IN  [w EXCEPT
                   !.actions = Append(w.actions, action),
                   !.calls = IF call = "none" THEN w.calls
                             ELSE Append(w.calls,
                                    [op |-> call, serviceId |-> match.id,
                                     numInstances |-> 2, ok |-> ok,
                                     svcIdx |-> 0, stage |-> "validation"]),
                   !.store = Append(w.store,
                               [op |-> "addRemediation",
                                actionId |-> action.id, type |-> action.type]),
                   !.retried = TRUE]
    IN  IF type = "restart"
        THEN { pushed(pushed(v1, "scale",
                   "Escalation: scaled to 2 instances after restart failed",
                   "scale", ok),
                   "alert", "Escalation: still unhealthy after scale",
                   "none", TRUE) : ok \in BOOLEAN }
        ELSE IF type = "scale"
        THEN { pushed(v1, "alert", "Escalation: still unhealthy after scale",
                      "none", TRUE) }
        ELSE {v1}

\* if (!isHealthy) { allHealthy = false; ... push ...; retried = true }
\* v = [actions, calls, store, checks, allHealthy, retried]; the pushed
\* action remembers in cause the id of the action whose check pushed it
escalate(v, i, match) ==
    LET steps == escalationFor(v.actions[i].type)
        v1 == [v EXCEPT !.allHealthy = FALSE]
    IN  IF steps = <<>> THEN {v1}
        ELSE { LET action == [createAction(Len(v1.actions) + 1, steps[1].type,
                                match.name, steps[1].description,
                                IF steps[1].call = "none" THEN TRUE ELSE ok, 0)
                              EXCEPT !.cause = v.actions[i].id]
               IN  [v1 EXCEPT
                      !.actions = Append(v1.actions, action),
                      !.calls = IF steps[1].call = "none" THEN v1.calls
                                ELSE Append(v1.calls,
                                       [op |-> steps[1].call,
                                        serviceId |-> match.id,
                                        numInstances |-> steps[1].numInstances,
                                        ok |-> ok, svcIdx |-> 0,
                                        stage |-> "validation"]),
                      !.store = Append(v1.store,
                                  [op |-> "addRemediation",
                                   actionId |-> action.id, type |-> action.type]),
                      !.retried = TRUE]
               : ok \in IF steps[1].call = "none" THEN {TRUE} ELSE BOOLEAN }

\* What getServiceStatus may answer: a status, or null ("none") on failure
StatusReports == {"active", "suspended", "none"}

\* Variant of checkAction: a healthy target is escalated as well
checkActionEscalatingHealthy(v, i, match) ==
    UNION { LET isHealthy == status = "active"
                v1 == [v EXCEPT
                        !.checks = Append(v.checks,
                                     [actionId |-> v.actions[i].id,
                                      serviceId |-> match.id,
                                      active |-> (status = "active")]),
                        !.actions[i].validated =
                            IF isHealthy THEN "true" ELSE "false",
                        !.store = Append(v.store,
                                    [op |-> "updateRemediationValidation",
                                     actionId |-> v.actions[i].id,
                                     type |-> IF isHealthy THEN "true" ELSE "false"])]
            IN  escalate(v1, i, match)
            : status \in StatusReports }

\* getServiceStatus(match.id) for action i: any status (or null) may come
\* back; isHealthy = status?.status === 'active'; action.validated =
\* isHealthy; updateRemediationValidation.  The check is logged with
\* whether the answer was 'active'.
checkAction(v, i, match) ==
    UNION { LET isHealthy == status = "active"
                v1 == [v EXCEPT
                        !.checks = Append(v.checks,
                                     [actionId |-> v.actions[i].id,
                                      serviceId |-> match.id,
                                      active |-> (status = "active")]),
                        !.actions[i].validated =
                            IF isHealthy THEN "true" ELSE "false",
                        !.store = Append(v.store,
                                    [op |-> "updateRemediationValidation",
                                     actionId |-> v.actions[i].id,
                                     type |-> IF isHealthy THEN "true" ELSE "false"])]
            IN  IF isHealthy THEN {v1} ELSE escalate(v1, i, match)
            : status \in StatusReports }

\* Variant of findMatch: the last listed service that matches, not the first
findLastMatch(listing, x) ==
    LET hits == {i \in DOMAIN listing :
                    includes(toLowerCase(listing[i].name), toLowerCase(x))}
    IN  IF hits = {} THEN 0 ELSE CHOOSE i \in hits : \A j \in hits : i >= j

\* Variant of validateLoop: the target of an action is looked up from the
\* end of the listing
RECURSIVE validateLoopLastMatch(_, _, _)
validateLoopLastMatch(v, i, listing) ==
    IF i > Len(v.actions) THEN {v}
    ELSE IF v.actions[i].type \in {"noop", "alert"}
         THEN validateLoopLastMatch(v, i + 1, listing)
    ELSE LET m == findLastMatch(listing, v.actions[i].targetService)
         IN  IF m = 0 THEN validateLoopLastMatch(v, i + 1, listing)
             ELSE UNION { validateLoopLastMatch(v2, i + 1, listing) :
                            v2 \in checkAction(v, i, listing[m]) }

\* for (const action of incident.remediationActions) { ... }: the array
\* iterator also visits the actions pushed during the loop
RECURSIVE validateLoop(_, _, _)
validateLoop(v, i, listing) ==
    IF i > Len(v.actions) THEN {v}
    ELSE IF v.actions[i].type \in {"noop", "alert"}
         THEN validateLoop(v, i + 1, listing)
    ELSE LET m == findMatch(listing, v.actions[i].targetService)
         IN  IF m = 0 THEN validateLoop(v, i + 1, listing)
             ELSE UNION { validateLoop(v2, i + 1, listing) :
                            v2 \in checkAction(v, i, listing[m]) }

\* remediator.validateRemediation(incident) and the validation_complete
\* notice.  renderServices is the listing fetched by validateRemediation.
Validate ==
    /\ pc = "validate"
    /\ \E listing \in ValidationListings :
       \E v \in validateLoop([actions |-> remediationActions,
                              calls |-> renderCalls, store |-> storeLog,
                              checks |-> <<>>,
                              allHealthy |-> TRUE, retried |-> FALSE],
                             1, listing) :
          /\ renderServices' = listing
          /\ remediationActions' = v.actions
          /\ renderCalls' = v.calls
          /\ storeLog' = v.store
          /\ statusChecks' = v.checks
          /\ resolvedAt' = v.allHealthy
          /\ validation' = [healthy |-> v.allHealthy, retried |-> v.retried]
    /\ notices' = Append(notices, "validation_complete")
    /\ pc' = "report"
    /\ UNCHANGED <<severity, services, pastRemediations, pastContext,
                   signalBatch, incident>>
    /\ lookups' = Append(lookups, "listServices")
    /\ UNCHANGED incidents
    /\ UNCHANGED outsideRunVars
    /\ UNCHANGED detectorVars

\* Variant of Report: an incident left unresolved gets no post-mortem
ReportResolvedOnly ==
    /\ pc = "report"
    /\ storeLog' = IF resolvedAt
                   THEN Append(storeLog, [op |-> "addPostMortem",
                                          actionId |-> 0, type |-> "none"])
                   ELSE storeLog
    /\ notices' = IF resolvedAt
                  THEN notices \o <<"postmortem_complete", "incident_complete",
                                    "pipeline_complete">>
                  ELSE Append(notices, "pipeline_complete")
    /\ pc' = "done"
    /\ UNCHANGED <<severity, services, remediationActions, resolvedAt,
                   pastRemediations, pastContext, renderServices,
                   renderCalls, validation, statusChecks, signalBatch, incident>>
    /\ incidents' = Append(incidents, [severity |-> severity, resolved |-> resolvedAt])
    /\ UNCHANGED lookups
    /\ UNCHANGED outsideRunVars
    /\ UNCHANGED detectorVars

\* Variant of Report: a resolved incident is downgraded to info when reported
ReportDowngradingResolved ==
    /\ pc = "report"
    /\ severity' = IF resolvedAt THEN "info" ELSE severity
    /\ storeLog' = Append(storeLog,
                     [op |-> "addPostMortem", actionId |-> 0, type |-> "none"])
    /\ notices' = notices \o <<"postmortem_complete", "incident_complete",
                               "pipeline_complete">>
    /\ pc' = "done"
    /\ UNCHANGED <<services, remediationActions, resolvedAt,
                   pastRemediations, pastContext, renderServices,
                   renderCalls, validation, statusChecks, signalBatch, incident>>
    /\ incidents' = Append(incidents, [severity |-> severity, resolved |-> resolvedAt])
    /\ UNCHANGED lookups
    /\ UNCHANGED outsideRunVars
    /\ UNCHANGED detectorVars

\* reporter.generatePostMortem(incident), then the closing notices
\* ("pipeline_complete" stands for the notice with result 'completed')
Report ==
    /\ pc = "report"
    /\ storeLog' = Append(storeLog,
                     [op |-> "addPostMortem", actionId |-> 0, type |-> "none"])
    /\ notices' = notices \o <<"postmortem_complete", "incident_complete",
                               "pipeline_complete">>
    /\ pc' = "done"
    /\ UNCHANGED <<severity, services, remediationActions, resolvedAt,
                   pastRemediations, pastContext, renderServices,
                   renderCalls, validation, statusChecks, signalBatch, incident>>
    /\ incidents' = Append(incidents, [severity |-> severity, resolved |-> resolvedAt])
    /\ UNCHANGED lookups
    /\ UNCHANGED outsideRunVars
    /\ UNCHANGED detectorVars

\* Variant of Detect: an empty batch is handed to the analysis like any other
DetectWithoutEmptyCheck ==
    /\ pc = "idle"
    /\ \E batch \in SignalBatches :
        /\ signalBatch' = batch
        /\ notices' = <<"pipeline_start", "detection_complete">>
        /\ pc' = "analyze"
    /\ UNCHANGED <<severity, services, remediationActions, resolvedAt,
                   pastRemediations, pastContext, renderServices, renderCalls,
                   storeLog, validation, statusChecks, incident>>
    /\ UNCHANGED <<incidents, lookups>>
    /\ UNCHANGED outsideRunVars
    /\ UNCHANGED detectorVars

\* runPipeline, detection stage: the batch is the synthetic one or what
\* detector.detect() returned; an empty batch ends the run
\* ("pipeline_complete(no_signals)" is the notice with result 'no_signals')
Detect ==
    /\ pc = "idle"
    /\ \E batch \in SignalBatches :
        /\ signalBatch' = batch
        /\ IF Len(batch) = 0
           THEN /\ notices' = <<"pipeline_start", "detection_complete",
                                "pipeline_complete(no_signals)">>
                /\ pc' = "no_signals"
           ELSE /\ notices' = <<"pipeline_start", "detection_complete">>
                /\ pc' = "analyze"
    /\ UNCHANGED <<severity, services, remediationActions, resolvedAt,
                   pastRemediations, pastContext, renderServices, renderCalls,
                   storeLog, validation, statusChecks, incident>>
    /\ UNCHANGED <<incidents, lookups>>
    /\ UNCHANGED outsideRunVars
    /\ UNCHANGED detectorVars

\* runPipeline when detection yields nothing (no source reports anything, or
\* every source failed and answered with its empty default)
DetectNothing == Detect /\ signalBatch' = <<>>

Next ==
    DetectNothing \/ Analyze \/ Remediate \/ AnnounceActions \/ Validate \/ Report

Spec == Init /\ [][Next]_vars

\* The stage that follows each stage of a run that has created its incident
StageAfter ==
    [remediate |-> "announce", announce |-> "validate",
     validate |-> "report", report |-> "done"]

\* The run leaves its current stage for the next one
Advance == pc \in DOMAIN StageAfter /\ pc' = StageAfter[pc]

\* Every stage of a started run is an await on a call that returns (the
\* clients catch their errors and answer with a default) or on the 10 s
\* timer, so a run that has created its incident keeps advancing.
FairSpec == Spec /\ WF_pc(Advance)

-----------------------------------------------------------------------------
(* Detection and analysis, with the batch of signals in view *)

\* runPipeline, analysis stage: analyzer.analyze(signals), the
\* analysis_complete notice, and either the end of the run (no incident) or
\* the incident notice and neo4j.createIncident
AnalyzeSignals ==
    /\ pc = "analyze"
    /\ LET inc == analyze(signalBatch)
       IN  /\ incident' = inc
           /\ IF inc = NoIncident
              THEN /\ notices' = notices \o <<"analysis_complete",
                                               "pipeline_complete(no_incident)">>
                   /\ pc' = "no_incident"
                   /\ UNCHANGED <<severity, services, storeLog>>
              ELSE /\ notices' = notices \o <<"analysis_complete", "incident">>
                   /\ severity' = inc.severity
                   /\ services' = inc.services
                   /\ storeLog' = <<[op |-> "createIncident", actionId |-> 0,
                                     type |-> "none"]>>
                   /\ pc' = "remediate"
    /\ UNCHANGED <<remediationActions, resolvedAt, pastRemediations,
                   pastContext, renderServices, renderCalls, validation,
                   statusChecks, signalBatch>>
    /\ UNCHANGED <<incidents, lookups>>
    /\ UNCHANGED outsideRunVars
    /\ UNCHANGED detectorVars

\* A direct call analyzer.analyze(batch) on any batch, the empty one included
AnalyzeCall ==
    /\ pc = "idle"
    /\ \E batch \in SignalBatches :
        /\ signalBatch' = batch
        /\ incident' = analyze(batch)
    /\ pc' = "returned"
    /\ UNCHANGED <<severity, services, remediationActions, resolvedAt,
                   pastRemediations, pastContext, renderServices, renderCalls,
                   storeLog, validation, notices, statusChecks>>
    /\ UNCHANGED <<incidents, lookups>>
    /\ UNCHANGED outsideRunVars
    /\ UNCHANGED detectorVars

NextAnalyzer == Detect \/ AnalyzeSignals \/ AnalyzeCall

AnalyzerSpec == Init /\ [][NextAnalyzer]_vars

-----------------------------------------------------------------------------
(* The server: the three callers of runPipeline (src/src/index.ts) *)

\* invocations of runPipeline in one behavior
MaxRuns == 2

\* The state of the single run the other specifications follow
singleRunVars ==
    <<pc, severity, services, remediationActions, resolvedAt,
      pastRemediations, pastContext, renderServices, renderCalls, storeLog,
      validation, notices, statusChecks, signalBatch, incident, incidents,
      lookups>>

\* runPipeline(syntheticSignals?) up to its first await on I/O: a live run
\* waits for detector.detect(); a run with a synthetic batch has analysed it
\* (analyze is synchronous, the presets are not empty) and waits for
\* neo4j.createIncident.  target is the compute-target service the run's
\* restart/scale/resume calls are for, once its strategy has chosen one.
runPipeline(trigger) ==
    [trigger |-> trigger,
     stage |-> IF trigger = "simulate" THEN "store" ELSE "detect",
     target |-> "none"]

\* cron.schedule(..., () => runPipeline().catch(...))
CronTick ==
    /\ Len(runs) < MaxRuns
    /\ runs' = Append(runs, runPipeline("timer"))
    /\ UNCHANGED <<singleRunVars, graph, similar, historyAnalysis, postMortem>>
    /\ UNCHANGED detectorVars

\* POST /api/trigger: runPipeline().catch(...); the response is sent at once
PostTrigger ==
    /\ Len(runs) < MaxRuns
    /\ runs' = Append(runs, runPipeline("trigger"))
    /\ UNCHANGED <<singleRunVars, graph, similar, historyAnalysis, postMortem>>
    /\ UNCHANGED detectorVars

\* POST /api/simulate with a known scenario: runPipeline(signals).catch(...)
PostSimulate ==
    /\ Len(runs) < MaxRuns
    /\ runs' = Append(runs, runPipeline("simulate"))
    /\ UNCHANGED <<singleRunVars, graph, similar, historyAnalysis, postMortem>>
    /\ UNCHANGED detectorVars

\* What a run may be after the await it is waiting on has returned:
\* detection ends the run (no signals) or hands on to analysis and store;
\* the strategy picks the service it acts on, if any; validation acts on
\* the same service; the report ends the run.
stageOutcomes(run) ==
    CASE run.stage = "detect" ->
            { [run EXCEPT !.stage = "ended"], [run EXCEPT !.stage = "store"] }
      [] run.stage = "store" ->
            { [run EXCEPT !.stage = "remediate", !.target = t] :
                t \in {s.id : s \in RenderPool} \cup {"none"} }
      [] run.stage = "remediate" -> { [run EXCEPT !.stage = "validate"] }
      [] run.stage = "validate" ->
            { [run EXCEPT !.stage = "report", !.target = "none"] }
      [] run.stage = "report" -> { [run EXCEPT !.stage = "ended"] }
      [] OTHER -> {}

\* One run resumes after its await; the others stay where they wait
RunStep ==
    /\ \E r \in DOMAIN runs :
        \E next \in stageOutcomes(runs[r]) :
            runs' = [runs EXCEPT ![r] = next]
    /\ UNCHANGED <<singleRunVars, graph, similar, historyAnalysis, postMortem>>
    /\ UNCHANGED detectorVars

NextServer == CronTick \/ PostTrigger \/ PostSimulate \/ RunStep

ServerSpec == Init /\ [][NextServer]_vars

-----------------------------------------------------------------------------
(* The incident store and the history lookup of remediate *)

\* incidents the store may hold
MaxStored == 6

\* LIMIT 5 of the query of findSimilarIncidents
SimilarLimit == 5

\* The incidents earlier runs may have stored (createIncident, then
\* addRemediation for their actions): detection times are neither in id
\* order nor all distinct, every third incident affects s3 and the others
\* aws, and the recorded remediations differ from one incident to the next.
StoredPool ==
    { [id |-> i,
       detectedAt |-> (3 * i) % 5,
       services |-> IF i % 3 = 0 THEN {KNOWN_SERVICES[2]}
                    ELSE {KNOWN_SERVICES[1]},
       remediations |->
           CASE i % 4 = 1 -> <<[type |-> "restart", success |-> FALSE]>>
             [] i % 4 = 2 -> <<[type |-> "restart", success |-> TRUE],
                               [type |-> "scale", success |-> FALSE]>>
             [] i % 4 = 3 -> <<[type |-> "scale", success |-> TRUE]>>
             [] OTHER -> <<>>]
      : i \in 1..MaxStored }

\* ORDER BY i.detectedAt DESC LIMIT n over the matched incidents: every
\* order the store may return them in (incidents with equal detection
\* times come in either order)
RECURSIVE mostRecentFirst(_, _)
mostRecentFirst(matched, n) ==
    IF n = 0 \/ matched = {} THEN {<<>>}
    ELSE UNION { { <<m>> \o rest :
                     rest \in mostRecentFirst(matched \ {m}, n - 1) }
                 : m \in {x \in matched :
                              \A y \in matched : y.detectedAt <= x.detectedAt} }

\* Variant of findSimilarIncidents: the query has no LIMIT
findSimilarIncidentsUnlimited(stored, svcs, available) ==
    IF ~available THEN {<<>>}
    ELSE LET matched ==
                 {i \in stored :
                     \E k \in DOMAIN svcs : svcs[k] \in i.services}
         IN  mostRecentFirst(matched, Cardinality(matched))

\* findSimilarIncidents(services, errors): [] without a session or when the
\* query fails (available = FALSE); otherwise the incidents that affect a
\* service named in $services, most recent first, at most five
findSimilarIncidents(stored, svcs, available) ==
    IF ~available THEN {<<>>}
    ELSE LET matched ==
                 {i \in stored :
                     \E k \in DOMAIN svcs : svcs[k] \in i.services}
         IN  mostRecentFirst(matched, SimilarLimit)

\* pastResults.flatMap(r => r.remediations)
RECURSIVE flatMapRemediations(_)
flatMapRemediations(results) ==
    IF results = <<>> THEN <<>>
    ELSE results[1].remediations \o flatMapRemediations(Tail(results))

\* An earlier run has published an incident: it is in the store from now on
StoreIncident ==
    /\ pc = "idle"
    /\ \E i \in StoredPool \ graph : graph' = graph \cup {i}
    /\ UNCHANGED <<pc, severity, services, remediationActions, resolvedAt,
                   pastRemediations, pastContext, renderServices, renderCalls,
                   storeLog, validation, notices, statusChecks, signalBatch,
                   incident, incidents, lookups, runs, similar,
                   historyAnalysis, postMortem>>
    /\ UNCHANGED detectorVars

\* remediate, steps 1 and 3: findSimilarIncidents for the incident's
\* services, the remediations of the incidents found, their analysis
LookUpHistory ==
    /\ pc = "idle"
    /\ \E svcs \in DeclaredServices, available \in BOOLEAN :
       \E pastResults \in findSimilarIncidents(graph, svcs, available) :
          /\ services' = svcs
          /\ similar' = pastResults
          /\ pastRemediations' = flatMapRemediations(pastResults)
          /\ historyAnalysis' =
                analyzePastRemediations(flatMapRemediations(pastResults))
          /\ pc' = IF available THEN "history" ELSE "history_unavailable"
    /\ lookups' = Append(lookups, "findSimilarIncidents")
    /\ UNCHANGED <<severity, remediationActions, resolvedAt, pastContext,
                   renderServices, renderCalls, storeLog, validation,
                   notices, statusChecks, signalBatch, incident, incidents,
                   runs, graph, postMortem>>
    /\ UNCHANGED detectorVars

NextHistory == StoreIncident \/ LookUpHistory

HistorySpec == Init /\ [][NextHistory]_vars

-----------------------------------------------------------------------------
(* ReporterAgent (src/unnamed/part_000): the post-mortem of an incident *)

\* actions of an incident handed to the reporter
MaxReported == 2

\* calls of generatePostMortem in one behavior (the clock reading of a call)
MaxClock == 2

\* The action lists an incident may carry when it is reported
ReportableActions ==
    UNION { { [i \in 1..n |->
                 createAction(i, f[i].type, KNOWN_SERVICES[1],
                              IF f[i].type = "restart"
                              THEN "Restarted to recover from incident"
                              ELSE "No matching Render service found",
                              f[i].success, 0)] :
              f \in [1..n -> [type : {"restart", "alert"},
                              success : BOOLEAN]] }
            : n \in 0..MaxReported }

\* `Post-Mortem: ${incident.title}`
PostMortemPrefix == <<"P","o","s","t","-","M","o","r","t","e","m",":"," ">>

\* incident.severity.toUpperCase()
SeverityUpperCase ==
    [critical |-> "CRITICAL", warning |-> "WARNING", info |-> "INFO"]

\* buildTimeline: the lines of the timeline, each as the values it prints
\* (the timestamps of the incident, its signals and its actions are fields
\* the model does not carry)
buildTimeline(inc, actions, resolved) ==
    <<[line |-> "Incident detected"]>>
    \o [i \in DOMAIN inc.signals |->
          [line |-> "signal", source |-> inc.signals[i].source,
           title |-> inc.signals[i].title]]
    \o [i \in DOMAIN actions |->
          [line |-> "Remediation", description |-> actions[i].description,
           outcome |-> IF actions[i].success THEN "success" ELSE "failed"]]
    \o (IF resolved THEN <<[line |-> "Incident resolved"]>> ELSE <<>>)

\* buildImpact: severity, then services and error codes when there are any
buildImpact(inc) ==
    <<[part |-> "Severity", text |-> SeverityUpperCase[inc.severity]]>>
    \o (IF Len(inc.services) > 0
        THEN <<[part |-> "Affected services",
                text |-> join(inc.services, <<",", " ">>)]>>
        ELSE <<>>)
    \o (IF Len(inc.errors) > 0
        THEN <<[part |-> "Error codes observed",
                text |-> join(inc.errors, <<",", " ">>)]>>
        ELSE <<>>)

\* buildRemediation: one line per action, or the fixed sentence
buildRemediation(actions) ==
    IF Len(actions) = 0
    THEN <<[line |-> "No automated remediation was performed."]>>
    ELSE [i \in DOMAIN actions |->
            [line |-> actions[i].type,
             description |-> actions[i].description,
             outcome |-> IF actions[i].success THEN "Success" ELSE "Failed"]]

\* buildLessons: root cause, failed actions, critical severity, or the
\* standard sentence when none applies
buildLessons(inc, actions) ==
    LET failedActions == SelectSeq(actions, LAMBDA a : ~a.success)
        lessons ==
            (IF inc.rootCause # Unset
             THEN <<[lesson |-> "Root cause identified", about |-> inc.rootCause]>>
             ELSE <<>>)
            \o (IF Len(failedActions) > 0
                THEN <<[lesson |-> "remediation action(s) failed",
                        about |-> Len(failedActions)]>>
                ELSE <<>>)
            \o (IF inc.severity = "critical"
                THEN <<[lesson |-> "Critical incident", about |-> "redundancy"]>>
                ELSE <<>>)
    IN  IF Len(lessons) = 0
        THEN <<[lesson |-> "Standard incident handling", about |-> "monitoring"]>>
        ELSE lessons

\* Variant of generatePostMortem: the timeline ends with the time of writing
generatePostMortemStamped(inc, actions, resolved, now) ==
    [title |-> PostMortemPrefix \o inc.title,
     timeline |-> buildTimeline(inc, actions, resolved)
                    \o <<[line |-> "Post-mortem written", at |-> now]>>,
     rootCause |-> IF inc.rootCause = Unset
                   THEN "Root cause under investigation" ELSE inc.rootCause,
     impact |-> buildImpact(inc),
     remediation |-> buildRemediation(actions),
     lessonsLearned |-> buildLessons(inc, actions),
     generatedAt |-> now]

\* The post-mortem generatePostMortem builds at clock reading now
generatePostMortem(inc, actions, resolved, now) ==
    [title |-> PostMortemPrefix \o inc.title,
     timeline |-> buildTimeline(inc, actions, resolved),
     rootCause |-> IF inc.rootCause = Unset
                   THEN "Root cause under investigation" ELSE inc.rootCause,
     impact |-> buildImpact(inc),
     remediation |-> buildRemediation(actions),
     lessonsLearned |-> buildLessons(inc, actions),
     generatedAt |-> now]

\* An incident reaches the reporter: the analysis of a one-signal batch,
\* with the actions and the resolution the earlier stages left on it
TakeIncident ==
    /\ pc = "idle"
    /\ \E batch \in SignalBatches :
        /\ Len(batch) = 1
        /\ signalBatch' = batch
        /\ incident' = analyze(batch)
        /\ severity' = analyze(batch).severity
        /\ services' = analyze(batch).services
    /\ remediationActions' \in ReportableActions
    /\ resolvedAt' \in BOOLEAN
    /\ pc' = "report"
    /\ UNCHANGED <<pastRemediations, pastContext, renderServices, renderCalls,
                   storeLog, validation, notices, statusChecks, incidents,
                   lookups, runs, graph, similar, historyAnalysis, postMortem>>
    /\ UNCHANGED detectorVars

\* reporter.generatePostMortem(incident), called for the first time or
\* again on the same incident: the post-mortem is built from the incident at
\* a later clock reading and handed to the stores (addPostMortem)
GeneratePostMortem ==
    /\ pc \in {"report", "reported"}
    /\ LET now == IF postMortem = NoPostMortem THEN 1
                  ELSE postMortem.generatedAt + 1
       IN  /\ now <= MaxClock
           /\ postMortem' = generatePostMortem(incident, remediationActions,
                                               resolvedAt, now)
    /\ storeLog' = Append(storeLog,
                     [op |-> "addPostMortem", actionId |-> 0, type |-> "none"])
    /\ pc' = "reported"
    /\ UNCHANGED <<severity, services, remediationActions, resolvedAt,
                   pastRemediations, pastContext, renderServices, renderCalls,
                   validation, notices, statusChecks, signalBatch, incident,
                   incidents, lookups, runs, graph, similar, historyAnalysis>>
    /\ UNCHANGED detectorVars

NextReporter == TakeIncident \/ GeneratePostMortem

ReporterSpec == Init /\ [][NextReporter]_vars

-----------------------------------------------------------------------------
(* DetectorAgent.searchOutages (src/unnamed/part_000): parallel searches *)

\* results in one search response (the client asks for at most 5)
MaxResults == 1

\* renderServices.slice(0, 2): at most two targeted searches
TargetedLimit == 2

\* r.score > 0.5 (general search) and r.score > 0.6 (targeted search), in
\* tenths
GeneralThreshold == 5
TargetedThreshold == 6

\* Results a search may return: two pages report the same URL, one result
\* carries no URL, one scores between the two thresholds
TavilyResults ==
    { [title |-> "A", url |-> "https://status.a", score |-> 7],
      [title |-> "B", url |-> "https://status.a", score |-> 7],
      [title |-> "C", url |-> Unset, score |-> 7],
      [title |-> "D", url |-> "https://status.d", score |-> 6] }

\* A response: distinct results, in the order the API ranks them
SearchResponses ==
    {r \in SeqsUpTo(TavilyResults, MaxResults) :
        \A i, j \in DOMAIN r : i # j => r[i] # r[j]}

\* A string used as a condition: undefined and '' are falsy
truthy(url) == url \notin {Unset, ""}

\* The .then callback of one search: a signal per result above the threshold
signalsOf(results, threshold) ==
    LET kept == SelectSeq(results, LAMBDA r : r.score > threshold)
    IN  [i \in DOMAIN kept |->
            [source |-> "tavily", title |-> kept[i].title, url |-> kept[i].url]]

thresholdOf(search) ==
    IF search.query = "general" THEN GeneralThreshold ELSE TargetedThreshold

\* Variant of deduplicateByUrl: a signal is dropped only when the signal kept
\* just before it has the same URL
RECURSIVE dropAdjacent(_, _, _)
dropAdjacent(signals, i, last) ==
    IF i > Len(signals) THEN <<>>
    ELSE IF truthy(signals[i].url) /\ signals[i].url = last
         THEN dropAdjacent(signals, i + 1, last)
    ELSE <<signals[i]>> \o dropAdjacent(signals, i + 1, signals[i].url)

deduplicateAdjacentByUrl(signals) == dropAdjacent(signals, 1, Unset)

\* signals.filter(s => { if (s.url && seen.has(s.url)) return false;
\*                       if (s.url) seen.add(s.url); return true; })
RECURSIVE filterSeen(_, _, _)
filterSeen(signals, i, seen) ==
    IF i > Len(signals) THEN <<>>
    ELSE IF truthy(signals[i].url) /\ signals[i].url \in seen
         THEN filterSeen(signals, i + 1, seen)
    ELSE <<signals[i]>> \o
         filterSeen(signals, i + 1,
                    IF truthy(signals[i].url) THEN seen \cup {signals[i].url}
                    ELSE seen)

deduplicateByUrl(signals) == filterSeen(signals, 1, {})

\* searchOutages up to its first await: the general search is started
StartGeneralSearch ==
    /\ pc = "idle"
    /\ searches' = <<[query |-> "general", state |-> "pending", results |-> <<>>]>>
    /\ pc' = "listing"
    /\ UNCHANGED <<outageSignals, tavilySignals>>
    /\ UNCHANGED <<severity, services, remediationActions, resolvedAt,
                   pastRemediations, pastContext, renderServices, renderCalls,
                   storeLog, validation, notices, statusChecks, signalBatch,
                   incident, incidents>>
    /\ UNCHANGED lookups
    /\ UNCHANGED outsideRunVars

\* render.listServices() has returned: one targeted search is started for
\* each of the first two listed services (none when the listing is empty or
\* the call failed)
StartTargetedSearches ==
    /\ pc = "listing"
    /\ \E n \in 0..TargetedLimit :
        searches' = searches \o
            [i \in 1..n |-> [query |-> "targeted", state |-> "pending",
                             results |-> <<>>]]
    /\ lookups' = Append(lookups, "listServices")
    /\ pc' = "searching"
    /\ UNCHANGED <<outageSignals, tavilySignals>>
    /\ UNCHANGED <<severity, services, remediationActions, resolvedAt,
                   pastRemediations, pastContext, renderServices, renderCalls,
                   storeLog, validation, notices, statusChecks, signalBatch,
                   incident, incidents>>
    /\ UNCHANGED outsideRunVars

\* One pending search resolves, in any order among the pending ones, and
\* its callback pushes its signals
SearchCompletes ==
    /\ pc \in {"listing", "searching"}
    /\ \E i \in DOMAIN searches, response \in SearchResponses :
        /\ searches[i].state = "pending"
        /\ searches' = [searches EXCEPT ![i].state = "done",
                                        ![i].results = response]
        /\ outageSignals' = outageSignals \o
                                signalsOf(response, thresholdOf(searches[i]))
    /\ UNCHANGED <<pc, tavilySignals>>
    /\ UNCHANGED <<severity, services, remediationActions, resolvedAt,
                   pastRemediations, pastContext, renderServices, renderCalls,
                   storeLog, validation, notices, statusChecks, signalBatch,
                   incident, incidents>>
    /\ UNCHANGED lookups
    /\ UNCHANGED outsideRunVars

\* The callback of one pending search throws on a malformed result (the
\* search client itself answers a failed request with no results): the
\* signals of the results before it stay pushed, the catch logs the error.
\* results holds the results the callback got through.
SearchFails ==
    /\ pc \in {"listing", "searching"}
    /\ \E i \in DOMAIN searches, processed \in SearchResponses :
        /\ searches[i].state = "pending"
        /\ searches' = [searches EXCEPT ![i].state = "failed",
                                        ![i].results = processed]
        /\ outageSignals' = outageSignals \o
                                signalsOf(processed, thresholdOf(searches[i]))
    /\ UNCHANGED <<pc, tavilySignals>>
    /\ UNCHANGED <<severity, services, remediationActions, resolvedAt,
                   pastRemediations, pastContext, renderServices, renderCalls,
                   storeLog, validation, notices, statusChecks, signalBatch,
                   incident, incidents>>
    /\ UNCHANGED lookups
    /\ UNCHANGED outsideRunVars

\* await Promise.all(searches) has returned: every search has settled; the
\* signals are deduplicated by URL and returned to detect
ReturnOutages ==
    /\ pc = "searching"
    /\ \A i \in DOMAIN searches : searches[i].state # "pending"
    /\ tavilySignals' = deduplicateByUrl(outageSignals)
    /\ pc' = "searched"
    /\ UNCHANGED <<searches, outageSignals>>
    /\ UNCHANGED <<severity, services, remediationActions, resolvedAt,
                   pastRemediations, pastContext, renderServices, renderCalls,
                   storeLog, validation, notices, statusChecks, signalBatch,
                   incident, incidents>>
    /\ UNCHANGED lookups
    /\ UNCHANGED outsideRunVars

NextDetector ==
    \/ StartGeneralSearch \/ StartTargetedSearches
    \/ SearchCompletes \/ SearchFails \/ ReturnOutages

DetectorSpec == Init /\ [][NextDetector]_vars

-----------------------------------------------------------------------------
(* RemediatorAgent.validateRemediation called on any incident *)

\* actions in the incident handed to validateRemediation
MaxActions == 2

\* The action types the remediator creates
ActionTypes == {"restart", "scale", "alert", "noop"}

\* Action lists an incident may carry into validateRemediation: any types on
\* any targets (names of the pool), not yet validated
InitialActionLists ==
    { [i \in DOMAIN l |->
          createAction(i, l[i].type, l[i].target, "given", TRUE, 0)] :
        l \in SeqsUpTo([type : ActionTypes,
                        target : {rs.name : rs \in RenderPool}], MaxActions) }

\* An incident with its action list reaches validateRemediation
TakeActionList ==
    /\ pc = "idle"
    /\ remediationActions' \in InitialActionLists
    /\ pc' = "validating"
    /\ UNCHANGED <<severity, services, resolvedAt, pastRemediations,
                   pastContext, renderServices, renderCalls, storeLog,
                   validation, notices, statusChecks, signalBatch, incident,
                   incidents, lookups>>
    /\ UNCHANGED outsideRunVars
    /\ UNCHANGED detectorVars

\* remediator.validateRemediation(incident): the listing, the loop over the
\* action list, resolvedAt, the returned { healthy, retried }
ValidateCall ==
    /\ pc = "validating"
    /\ \E listing \in ValidationListings :
       \E v \in validateLoop([actions |-> remediationActions,
                              calls |-> renderCalls, store |-> storeLog,
                              checks |-> <<>>,
                              allHealthy |-> TRUE, retried |-> FALSE],
                             1, listing) :
          /\ renderServices' = listing
          /\ remediationActions' = v.actions
          /\ renderCalls' = v.calls
          /\ storeLog' = v.store
          /\ statusChecks' = v.checks
          /\ resolvedAt' = (resolvedAt \/ v.allHealthy)
          /\ validation' = [healthy |-> v.allHealthy, retried |-> v.retried]
    /\ lookups' = Append(lookups, "listServices")
    /\ pc' = "validated"
    /\ UNCHANGED <<severity, services, pastRemediations, pastContext,
                   notices, signalBatch, incident, incidents>>
    /\ UNCHANGED outsideRunVars
    /\ UNCHANGED detectorVars

NextValidator == TakeActionList \/ ValidateCall

ValidatorSpec == Init /\ [][NextValidator]_vars

-----------------------------------------------------------------------------
(* The run on a compute target whose listing does not change *)

\* What validateRemediation reads of a listing: ids and names
idsAndNames(listing) ==
    [i \in DOMAIN listing |-> [id |-> listing[i].id, name |-> listing[i].name]]

\* remediator.remediate(incident) as in Remediate, seen from its return:
\* the history and the documents are locals that are gone; what stays is the
\* compute target's listing (ids and names), which listServices will answer
\* again at validation time.
RemediateOnStableTarget ==
    /\ pc = "remediate"
    /\ \E past \in SeqsUpTo(PastRemediation, MaxPast),
          docs \in SeqsUpTo([content : DocContents], MaxDocs),
          listing \in IF severity = "info" THEN {<<>>} ELSE Listings :
       \E w \in remediate([actions |-> <<>>, calls |-> renderCalls,
                           store |-> storeLog],
                          severity, past, docs, listing) :
          /\ renderServices' = idsAndNames(listing)
          /\ remediationActions' = w.actions
          /\ renderCalls' = w.calls
          /\ storeLog' = w.store
    /\ pc' = "announce"
    /\ lookups' = lookups \o <<"findSimilarIncidents", "searchContext",
                              "searchRemediation">>
                          \o (IF severity = "info" THEN <<>>
                              ELSE <<"listServices">>)
    /\ UNCHANGED <<severity, services, resolvedAt, pastRemediations,
                   pastContext, validation, notices, statusChecks,
                   signalBatch, incident, incidents>>
    /\ UNCHANGED outsideRunVars
    /\ UNCHANGED detectorVars

\* runPipeline from the return of remediate to the return of
\* validateRemediation (the remediation_action notices, the listing, the
\* loop), when listServices answers at validation time what it answered at
\* strategy time.  An info incident fetched no listing at strategy time, so
\* any listing may come back for it.
ValidateOnSameListing ==
    /\ pc = "announce"
    /\ \E listing \in IF severity = "info" THEN ValidationListings
                      ELSE {renderServices} :
       \E v \in validateLoop([actions |-> remediationActions,
                              calls |-> renderCalls, store |-> storeLog,
                              checks |-> <<>>,
                              allHealthy |-> TRUE, retried |-> FALSE],
                             1, listing) :
          /\ renderServices' = listing
          /\ remediationActions' = v.actions
          /\ renderCalls' = v.calls
          /\ storeLog' = v.store
          /\ statusChecks' = v.checks
          /\ resolvedAt' = v.allHealthy
          /\ validation' = [healthy |-> v.allHealthy, retried |-> v.retried]
    /\ notices' = Append(notices \o actionNotices(remediationActions),
                         "validation_complete")
    /\ lookups' = Append(lookups, "listServices")
    /\ pc' = "report"
    /\ UNCHANGED <<severity, services, pastRemediations, pastContext,
                   signalBatch, incident, incidents>>
    /\ UNCHANGED outsideRunVars
    /\ UNCHANGED detectorVars

NextStableTarget == Analyze \/ RemediateOnStableTarget \/ ValidateOnSameListing

StableTargetSpec == Init /\ [][NextStableTarget]_vars

-----------------------------------------------------------------------------
(* Vocabulary of the properties *)

TerminalTypes == {"alert", "noop"}

TypesOf(seq) == [i \in 1..Len(seq) |-> seq[i].type]
OpsOf(seq) == [i \in 1..Len(seq) |-> seq[i].op]

\* The actions and the strategy-time calls made for declared service k
ChainOf(k) == SelectSeq(remediationActions, LAMBDA a : a.svcIdx = k)
CallsOf(k) == SelectSeq(renderCalls, LAMBDA c : c.svcIdx = k)

\* Case-insensitive substring match of a declared service against a listed one
NameMatches(rs, svcName) == includes(toLowerCase(rs.name), toLowerCase(svcName))

\* Declared service k matches some service of the strategy-time listing
Matched(k) == \E i \in DOMAIN renderServices : NameMatches(renderServices[i], services[k])

\* The first listed service that declared service k matches
FirstMatch(k) ==
    renderServices[CHOOSE i \in DOMAIN renderServices :
        /\ NameMatches(renderServices[i], services[k])
        /\ \A j \in 1..(i - 1) : ~NameMatches(renderServices[j], services[k])]

HasFailedRestart ==
    \E i \in DOMAIN pastRemediations :
        pastRemediations[i].type = "restart" /\ ~pastRemediations[i].success

HasEscalationDoc ==
    \E i \in DOMAIN pastContext : \E k \in DOMAIN escalationKeywords :
        includes(toLowerCase(pastContext[i].content), escalationKeywords[k])

\* remediate has returned and its inputs are still in view
Remediated == pc = "announce"

\* validateRemediation has returned
Validated == pc \in {"report", "done"}

ActionsFor(target) ==
    {i \in DOMAIN remediationActions : remediationActions[i].targetService = target}

\* Indices of the actions that are the last one recorded for their target
LastOfTarget ==
    {i \in DOMAIN remediationActions :
        \A j \in DOMAIN remediationActions :
            remediationActions[j].targetService = remediationActions[i].targetService
                => j <= i}

-----------------------------------------------------------------------------
(* C1..C10: strategy and escalation chains *)

\* C1 (as claimed): after remediate and validateRemediation, no compute-target
\* service is the targetService of more than 3 actions of the incident.
C1_AtMostThreeActionsPerTarget ==
    Validated =>
        \A s \in RenderPool : Cardinality(ActionsFor(s.name)) <= 3

\* C2 (as claimed): in the action list, no restart action for a target comes
\* after a scale action for the same target.
C2_NoRestartAfterScale ==
    \A i, j \in DOMAIN remediationActions :
        (i < j /\ remediationActions[i].type = "scale"
               /\ remediationActions[j].type = "restart")
            => remediationActions[i].targetService # remediationActions[j].targetService

\* C3 (as claimed): when the run finishes, the last action recorded for each
\* target has a terminal type (alert or noop).
C3_LastActionTerminal ==
    pc = "done" =>
        \A i \in LastOfTarget : remediationActions[i].type \in TerminalTypes

\* C3 (amended): when the run finishes, the last action recorded for each
\* target is terminal (alert or noop), or is a restart/scale action that
\* validation found healthy or could not check, or is a restart/scale action
\* found unhealthy whose escalation (scale after restart, alert after scale)
\* was recorded later under the different name of the service matched at
\* validation time.
C3_LastActionTerminalUnlessNotEscalatable ==
    pc = "done" =>
        \A i \in LastOfTarget :
            LET a == remediationActions[i]
            IN  \/ a.type \in TerminalTypes
                \/ a.validated \in {"true", Unset}
                \/ /\ a.validated = "false"
                   /\ \E j \in DOMAIN remediationActions :
                        /\ j > i
                        /\ remediationActions[j].type =
                              (IF a.type = "restart" THEN "scale" ELSE "alert")
                        /\ remediationActions[j].targetService # a.targetService
                        /\ includes(toLowerCase(remediationActions[j].targetService),
                                    toLowerCase(a.targetService))

\* Witness of C3: a finished run in which one target ends in an alert appended
\* by validation and another ends in a restart that was validated healthy.
C3_Witness ==
    /\ pc = "done"
    /\ \E i, j \in LastOfTarget :
        /\ remediationActions[i].type = "alert"
        /\ remediationActions[i].description = "Escalation: still unhealthy after scale"
        /\ remediationActions[j].type = "restart"
        /\ remediationActions[j].validated = "true"

\* C4 (as claimed): for a warning or critical incident, a declared service
\* whose match is suspended gets exactly one action, of type resume.
C4_SuspendedMatchRecordsResume ==
    (Remediated /\ severity \in {"warning", "critical"}) =>
        \A k \in DOMAIN services :
            (Matched(k) /\ FirstMatch(k).status = "suspended")
                => TypesOf(ChainOf(k)) = <<"resume">>

C8_InfoIsNoopWithoutCalls ==
    severity = "info" =>
        /\ renderCalls = <<>>
        /\ pc \in {"announce", "validate", "report", "done"}
              => TypesOf(remediationActions) = <<"noop">>

\* Witness of C8: a finished info run whose declared service matches a
\* service listed at validation time.
C8_Witness ==
    /\ pc = "done" /\ severity = "info"
    /\ services # <<>>
    /\ \E i \in DOMAIN renderServices : NameMatches(renderServices[i], services[1])
    /\ TypesOf(remediationActions) = <<"noop">>

\* C9: for a warning or critical incident none of whose declared services
\* matches a listed service (case-insensitive substring), remediate returns
\* exactly one action, an alert on the first declared service or on "unknown"
\* when none is declared, and issues no restart, scale or resume call.
C9_NoMatchGivesSingleAlert ==
    (Remediated /\ severity \in {"warning", "critical"}
                /\ \A k \in DOMAIN services : ~Matched(k)) =>
        /\ Len(remediationActions) = 1
        /\ remediationActions[1].type = "alert"
        /\ remediationActions[1].targetService =
              (IF services = <<>> THEN <<"u","n","k","n","o","w","n">>
               ELSE services[1])
        /\ renderCalls = <<>>

\* Witness of C9: declared services and a non-empty listing, no match, and
\* the alert names the first declared service.
C9_Witness ==
    /\ Remediated /\ severity = "warning"
    /\ services # <<>> /\ renderServices # <<>>
    /\ \A k \in DOMAIN services : ~Matched(k)
    /\ TypesOf(remediationActions) = <<"alert">>
    /\ remediationActions[1].targetService = services[1]

\* The strategy table selects restart-then-scale for a non-suspended match
RestartThenScaleChosen ==
    \/ severity = "critical"
    \/ severity = "warning" /\ (HasFailedRestart \/ HasEscalationDoc)

\* C10: a compute-target call that returns false never cuts a chain short:
\* every matched declared service gets its whole chain, each action carrying
\* the result of its call; when restart-then-scale is chosen and the restart
\* returns false, the scale call is still issued and both actions recorded.
C10_FailedCallDoesNotCutChain ==
    (Remediated /\ severity # "info") =>
        \A k \in DOMAIN services :
            Matched(k) =>
                /\ Len(ChainOf(k)) >= 1
                /\ Len(ChainOf(k)) = Len(CallsOf(k))
                /\ \A n \in DOMAIN ChainOf(k) :
                      ChainOf(k)[n].success = CallsOf(k)[n].ok
                /\ (RestartThenScaleChosen /\ FirstMatch(k).status # "suspended"
                        /\ ~CallsOf(k)[1].ok)
                      => /\ OpsOf(CallsOf(k)) = <<"restart", "scale">>
                         /\ TypesOf(ChainOf(k)) = <<"restart", "scale">>
                         /\ ~ChainOf(k)[1].success

\* Witness of C10: two matched declared services; the restart of the first
\* returned false, its scale was still issued, and the second was processed.
C10_Witness ==
    /\ Remediated /\ Len(services) = 2
    /\ Matched(1) /\ Matched(2)
    /\ OpsOf(CallsOf(1)) = <<"restart", "scale">>
    /\ ~CallsOf(1)[1].ok /\ ~ChainOf(1)[1].success
    /\ Len(ChainOf(2)) >= 1

-----------------------------------------------------------------------------
(* C11..C15: validation and the post-mortem stage *)

\* Number of actions remediate returned: one remediation_action notice each
ReturnedByRemediate ==
    Len(SelectSeq(notices, LAMBDA n : n = "remediation_action"))

\* Indices of the actions appended by validateRemediation
AppendedInValidation ==
    (ReturnedByRemediate + 1)..Len(remediationActions)

\* Calls validateRemediation issued to the compute target
ValidationCalls == SelectSeq(renderCalls, LAMBDA c : c.stage = "validation")

\* The check of action id found its target not active
FoundNotActive(id) ==
    \E h \in DOMAIN statusChecks :
        statusChecks[h].actionId = id /\ ~statusChecks[h].active

\* The check of action id found its target active
FoundActive(id) ==
    \E h \in DOMAIN statusChecks :
        statusChecks[h].actionId = id /\ statusChecks[h].active

\* C11: every action appended by validateRemediation is either a scale
\* action pushed for an earlier restart action whose target was checked and
\* found not active, or an alert action pushed for an earlier scale action
\* whose target was checked and found not active; no checked action pushes
\* more than one action; and the calls validation issues to the compute
\* target are exactly one scale call per appended scale action (none for an
\* appended alert).
C11_OnlyEscalationsAppended ==
    Validated =>
        /\ \A j \in AppendedInValidation :
              LET a == remediationActions[j]
              IN  /\ a.cause \in 1..(j - 1)
                  /\ FoundNotActive(a.cause)
                  /\ \/ /\ remediationActions[a.cause].type = "restart"
                        /\ a.type = "scale"
                     \/ /\ remediationActions[a.cause].type = "scale"
                        /\ a.type = "alert"
                  /\ \A k \in AppendedInValidation :
                        remediationActions[k].cause = a.cause => k = j
        /\ \A c \in DOMAIN ValidationCalls : ValidationCalls[c].op = "scale"
        /\ Len(ValidationCalls) =
              Cardinality({j \in AppendedInValidation :
                             remediationActions[j].type = "scale"})

\* C11 witness: validation appended both a scale (for an unhealthy restart)
\* and an alert (for an unhealthy scale)
C11_Witness ==
    /\ Validated
    /\ \E j, k \in AppendedInValidation :
          /\ remediationActions[j].type = "scale"
          /\ remediationActions[k].type = "alert"
          /\ Len(ValidationCalls) >= 1

\* C12: a restart or scale action whose matched target answered 'active' at
\* validation has validated = true, and no action of the incident was
\* appended because of its check.
C12_HealthyCheckAppendsNothing ==
    Validated =>
        \A h \in DOMAIN statusChecks :
            statusChecks[h].active =>
                LET a == remediationActions[statusChecks[h].actionId]
                IN  /\ a.type \in {"restart", "scale"}
                    /\ a.validated = "true"
                    /\ \A j \in DOMAIN remediationActions :
                          remediationActions[j].cause # a.id

\* C12 witness: one target was found active while another check of the same
\* validation failed and appended an escalation
C12_Witness ==
    /\ Validated
    /\ \E h \in DOMAIN statusChecks : statusChecks[h].active
    /\ AppendedInValidation # {}

\* C13: when validateRemediation has returned, resolvedAt is set exactly
\* when no status check of the validation found its target not active.
C13_ResolvedIffNoUnhealthyCheck ==
    Validated =>
        (resolvedAt <=> \A h \in DOMAIN statusChecks : statusChecks[h].active)

\* C13 witness: some targets were found active, one was not, and the
\* incident stays unresolved
C13_Witness ==
    /\ Validated
    /\ ~resolvedAt
    /\ \E h, g \in DOMAIN statusChecks :
          statusChecks[h].active /\ ~statusChecks[g].active

\* C15: a restart or scale action whose targetService matches no service of
\* the listing fetched by validateRemediation keeps validated unset, has no
\* status check and no updateRemediationValidation call, and no action is
\* appended because of it.
C15_UnmatchedActionLeftUnchecked ==
    Validated =>
        \A i \in DOMAIN remediationActions :
            LET a == remediationActions[i]
            IN  (/\ a.type \in {"restart", "scale"}
                 /\ \A k \in DOMAIN renderServices :
                       ~NameMatches(renderServices[k], a.targetService))
                => /\ a.validated = Unset
                   /\ \A h \in DOMAIN statusChecks :
                         statusChecks[h].actionId # a.id
                   /\ \A n \in DOMAIN storeLog :
                         ~(/\ storeLog[n].op = "updateRemediationValidation"
                           /\ storeLog[n].actionId = a.id)
                   /\ \A j \in DOMAIN remediationActions :
                         remediationActions[j].cause # a.id

\* C15 witness: the validation listing is not empty and another action was
\* checked, but one restart action's target is not in the listing
C15_Witness ==
    /\ Validated
    /\ statusChecks # <<>>
    /\ \E i \in DOMAIN remediationActions :
          /\ remediationActions[i].type = "restart"
          /\ \A k \in DOMAIN renderServices :
                ~NameMatches(renderServices[k], remediationActions[i].targetService)

\* The run has finished after generating the post-mortem: the post-mortem
\* was stored and postmortem_complete precedes pipeline_complete
CompletedWithPostMortem ==
    /\ pc = "done"
    /\ \E n \in DOMAIN storeLog : storeLog[n].op = "addPostMortem"
    /\ \E i, j \in DOMAIN notices :
          /\ i < j
          /\ notices[i] = "postmortem_complete"
          /\ notices[j] = "pipeline_complete"

-----------------------------------------------------------------------------
(* C16..C19: fusion and classification of a signal batch *)

\* analyzer.analyze has returned (called directly, or by the pipeline run)
Analysed == pc \in {"returned", "remediate", "no_incident"}

\* analyze returned an incident
IncidentCreated == Analysed /\ incident # NoIncident

\* `${s.title} ${s.summary}` of one signal
SignalText(s) == s.title \o <<" ">> \o s.summary

\* The text of signal s alone contains a critical keyword
HasCriticalKeyword(s) ==
    \E k \in DOMAIN CRITICAL_KEYWORDS :
        includes(toLowerCase(SignalText(s)), CRITICAL_KEYWORDS[k])

\* C16: analyze on the empty batch returns no incident, and nothing is built
\* or stored for it; every incident analyze returns carries the batch it was
\* given, which has at least one signal; and a run that has reached the
\* stages after analysis has an incident with at least one signal.
C16_IncidentHasSignals ==
    /\ (Analysed /\ Len(signalBatch) = 0) =>
          /\ incident = NoIncident
          /\ storeLog = <<>>
    /\ IncidentCreated =>
          /\ incident.signals = signalBatch
          /\ Len(incident.signals) >= 1
    /\ pc = "remediate" => (incident # NoIncident /\ Len(signalBatch) >= 1)

\* C16 witness: analyze was called on the empty batch and returned null
C16_Witness ==
    /\ pc = "returned"
    /\ Len(signalBatch) = 0
    /\ incident = NoIncident

\* C17: when the text of at least one signal of the batch contains a critical
\* keyword, the incident's severity is critical, whatever the other signals.
C17_CriticalKeywordForcesCritical ==
    IncidentCreated =>
        ((\E i \in DOMAIN signalBatch : HasCriticalKeyword(signalBatch[i]))
            => incident.severity = "critical")

\* C17 witness: one signal carries a critical keyword, another one comes from
\* the health check and carries none, and the incident is critical
C17_Witness ==
    /\ pc = "remediate"
    /\ incident.severity = "critical"
    /\ \E i, j \in DOMAIN signalBatch :
          /\ HasCriticalKeyword(signalBatch[i])
          /\ signalBatch[j].source = "render_health"
          /\ ~HasCriticalKeyword(signalBatch[j])

\* The batch with its signals in the order p (a permutation of the positions)
Reordered(p) == [i \in DOMAIN signalBatch |-> signalBatch[p[i]]]

\* C18 (as claimed): without a critical keyword in the batch text, a batch
\* with a health-check signal is warning; with neither, a batch with a
\* warning keyword is warning; otherwise it is info; and the severity is the
\* same for every order of the signals of the batch.
C18_SeverityTiersOrderFree ==
    IncidentCreated =>
        LET lower == toLowerCase(allTextOf(signalBatch))
            crit == someKeyword(CRITICAL_KEYWORDS, lower)
            health == \E i \in DOMAIN signalBatch :
                         signalBatch[i].source = "render_health"
            warn == someKeyword(WARNING_KEYWORDS, lower)
        IN  /\ (~crit /\ health) => incident.severity = "warning"
            /\ (~crit /\ ~health /\ warn) => incident.severity = "warning"
            /\ (~crit /\ ~health /\ ~warn) => incident.severity = "info"
            /\ \A p \in Permutations(DOMAIN signalBatch) :
                  classifySeverity(allTextOf(Reordered(p)), Reordered(p))
                      = incident.severity

\* The cues of root-cause inference in their claimed order: a 5xx status
\* code, then phrases searched in the lower-cased text
ROOT_CAUSE_CUES ==
    << [code5xx |-> TRUE, phrases |-> <<>>,
        outcome |-> "Server-side error detected"],
       [code5xx |-> FALSE, phrases |-> << <<"t","i","m","e","o","u","t">> >>,
        outcome |-> "Service timeout"],
       [code5xx |-> FALSE,
        phrases |-> << <<"o","o","m">>,
                       <<"o","u","t"," ","o","f"," ","m","e","m","o","r","y">> >>,
        outcome |-> "Resource exhaustion (memory)"],
       [code5xx |-> FALSE, phrases |-> << <<"d","i","s","k">> >>,
        outcome |-> "Resource exhaustion (disk)"],
       [code5xx |-> FALSE, phrases |-> << <<"d","n","s">> >>,
        outcome |-> "DNS resolution failure"],
       [code5xx |-> FALSE,
        phrases |-> << <<"c","e","r","t","i","f","i","c","a","t","e">>,
                       <<"s","s","l">>, <<"t","l","s">> >>,
        outcome |-> "TLS/SSL certificate issue"],
       [code5xx |-> FALSE,
        phrases |-> << <<"d","e","p","l","o","y">>,
                       <<"r","o","l","l","b","a","c","k">> >>,
        outcome |-> "Bad deployment"] >>

\* Cue k is present in the text of the analysed batch
CuePresent(k) ==
    LET text == allTextOf(signalBatch)
        cue == ROOT_CAUSE_CUES[k]
    IN  IF cue.code5xx
        THEN \E i \in DOMAIN text : text[i] = "5" /\ statusCodeAt(text, i)
        ELSE \E p \in DOMAIN cue.phrases :
                includes(toLowerCase(text), cue.phrases[p])

\* C19: the root cause of an incident is the outcome of the earliest cue, in
\* the order 5xx code, timeout, memory, disk, DNS, TLS/certificate,
\* deployment/rollback, that is present in the batch text, and is unset when
\* no cue is present.
C19_RootCauseFirstCueWins ==
    IncidentCreated =>
        LET present == {k \in DOMAIN ROOT_CAUSE_CUES : CuePresent(k)}
        IN  IF present = {} THEN incident.rootCause = Unset
            ELSE incident.rootCause =
                   ROOT_CAUSE_CUES[CHOOSE k \in present :
                                     \A m \in present : k <= m].outcome

\* C19 witness: the timeout cue and the deployment cue are both present, the
\* 5xx cue is not, and the root cause is the timeout
C19_Witness ==
    /\ pc = "returned"
    /\ incident # NoIncident
    /\ ~CuePresent(1)
    /\ CuePresent(2)
    /\ CuePresent(7)
    /\ incident.rootCause = "Service timeout"

-----------------------------------------------------------------------------
(* The run as a whole: severity, notices, action list *)

\* C21: the severity the analyzer gave the incident is never changed by a
\* later stage (store, remediate, validateRemediation, generatePostMortem),
\* also when validation found every target healthy and set resolvedAt.
C21_SeverityNeverChanges ==
    [][pc # "idle" => severity' = severity]_vars

\* C21 witness: a critical incident that went through remediation with a
\* health check, was resolved and reported, and is still critical
C21_Witness ==
    /\ pc = "done"
    /\ resolvedAt
    /\ statusChecks # <<>>
    /\ severity = "critical"

\* The stage notices of a run, in the order of the stages
StageNoticeRank ==
    [detection_complete |-> 1, analysis_complete |-> 2,
     remediation_action |-> 3, validation_complete |-> 4,
     postmortem_complete |-> 5]

\* The stage notices emitted so far, in emission order
StageNotices == SelectSeq(notices, LAMBDA n : n \in DOMAIN StageNoticeRank)

\* The actions remediate returned: those not pushed by a validation check
ReturnedActions == SelectSeq(remediationActions, LAMBDA a : a.cause = 0)

\* C22: within a run the stage notices come in the order detection_complete,
\* analysis_complete, remediation_action, validation_complete,
\* postmortem_complete: no notice of a stage precedes a notice of an earlier
\* stage, every stage but remediation emits one notice, remediation emits
\* one notice per action remediate returned, and a completed run has emitted
\* all of them.
C22_StageNoticesInOrder ==
    LET sn == StageNotices
        count(kind) == Len(SelectSeq(sn, LAMBDA n : n = kind))
    IN  /\ \A i \in 1..(Len(sn) - 1) :
              \/ StageNoticeRank[sn[i]] < StageNoticeRank[sn[i + 1]]
              \/ sn[i] = "remediation_action" /\ sn[i + 1] = "remediation_action"
        /\ pc \in {"validate", "report", "done"} =>
              count("remediation_action") = Len(ReturnedActions)
        /\ pc = "done" =>
              \A kind \in DOMAIN StageNoticeRank \ {"remediation_action"} :
                  count(kind) = 1

\* C22 witness: a completed run whose strategy returned two actions and whose
\* validation pushed a third: two remediation_action notices, between
\* analysis_complete and validation_complete
C22_Witness ==
    /\ pc = "done"
    /\ Len(remediationActions) = 3
    /\ Len(ReturnedActions) = 2
    /\ StageNotices = <<"detection_complete", "analysis_complete",
                        "remediation_action", "remediation_action",
                        "validation_complete", "postmortem_complete">>

\* C30: validateRemediation treats the action list as append-only: every
\* action already in the list keeps its position, id, type, targetService,
\* description and success (only its validated field may be set), and the
\* escalation actions are added after all of them, at the end.
C30_ActionListAppendOnly ==
    [][pc = "validate" =>
         /\ Len(remediationActions') >= Len(remediationActions)
         /\ \A i \in DOMAIN remediationActions :
              /\ remediationActions'[i].id = remediationActions[i].id
              /\ remediationActions'[i].type = remediationActions[i].type
              /\ remediationActions'[i].targetService =
                    remediationActions[i].targetService
              /\ remediationActions'[i].description =
                    remediationActions[i].description
              /\ remediationActions'[i].success = remediationActions[i].success
         /\ \A j \in (Len(remediationActions) + 1)..Len(remediationActions') :
              remediationActions'[j].cause # 0]_vars

\* C30 witness: validation has run; a failed restart returned by the strategy
\* was found unhealthy and is still the first action, still a failed restart,
\* and the scale action pushed for it is the last of the list
C30_Witness ==
    /\ pc = "report"
    /\ Len(remediationActions) >= 3
    /\ remediationActions[1].type = "restart"
    /\ ~remediationActions[1].success
    /\ remediationActions[1].validated = "false"
    /\ remediationActions[1].cause = 0
    /\ remediationActions[Len(remediationActions)].cause # 0
    /\ remediationActions[Len(remediationActions) - 1].cause # 0

PipelineCompleteNotices ==
    {"pipeline_complete", "pipeline_complete(no_signals)",
     "pipeline_complete(no_incident)"}

\* Number of closing notices the run has emitted
CompleteCount ==
    Len(SelectSeq(notices, LAMBDA n : n \in PipelineCompleteNotices))

\* The run is over: its last notice is its only closing notice
RunEnded ==
    /\ pc \in {"done", "no_signals", "no_incident"}
    /\ CompleteCount = 1
    /\ notices[Len(notices)] \in PipelineCompleteNotices

InFlight == {r \in DOMAIN runs : runs[r].stage # "ended"}

\* The runs whose restart/scale/resume calls for service id are under way
MutatingRuns(id) ==
    {r \in DOMAIN runs : /\ runs[r].stage \in {"remediate", "validate"}
                         /\ runs[r].target = id}

\* C24 (as claimed): at most one run is in flight at any time, whichever of
\* the timer, POST /api/trigger and POST /api/simulate started it, so that no
\* two runs have restart/scale/resume calls for the same service under way
\* together.
C24_AtMostOneRunInFlight ==
    /\ Cardinality(InFlight) <= 1
    /\ \A s \in RenderPool : Cardinality(MutatingRuns(s.id)) <= 1

\* The stored incidents that affect one of the services the lookup named
MatchedIncidents ==
    {i \in graph : \E k \in DOMAIN services : services[k] \in i.services}

\* C26: findSimilarIncidents returns at most 5 incidents, most recent first:
\* all of them affect a queried service, none is returned twice, they are
\* min(5, number of matching incidents) many, no matching incident left out
\* is more recent than a returned one, and the detection times never
\* increase along the result; when the store is unavailable or the query
\* fails the result is empty.
C26_SimilarAtMostFiveMostRecentFirst ==
    /\ pc = "history_unavailable" => similar = <<>>
    /\ pc = "history" =>
         LET returned == {similar[k] : k \in DOMAIN similar}
         IN  /\ Len(similar) <= 5
             /\ returned \subseteq MatchedIncidents
             /\ Cardinality(returned) = Len(similar)
             /\ Len(similar) = IF Cardinality(MatchedIncidents) < 5
                               THEN Cardinality(MatchedIncidents) ELSE 5
             /\ \A k \in 1..(Len(similar) - 1) :
                   similar[k].detectedAt >= similar[k + 1].detectedAt
             /\ \A m \in MatchedIncidents \ returned, r \in returned :
                   m.detectedAt <= r.detectedAt

\* C26 witness: six stored incidents affect the queried services; five are
\* returned, and the oldest is left out
C26_Witness ==
    /\ pc = "history"
    /\ Cardinality(MatchedIncidents) = 6
    /\ Len(similar) = 5
    /\ similar[1].detectedAt > similar[5].detectedAt

C29_NoTwoSignalsShareUrl ==
    IncidentCreated =>
        \A i, j \in DOMAIN incident.signals :
            (i < j /\ incident.signals[i].url # Unset)
                => incident.signals[i].url # incident.signals[j].url

\* The narrative sections of a post-mortem
NarrativeSections ==
    {"title", "timeline", "rootCause", "impact", "remediation",
     "lessonsLearned"}

\* A step leaves every field of the incident as it was
IncidentUntouched ==
    UNCHANGED <<incident, severity, services, remediationActions, resolvedAt,
                signalBatch>>

\* A step leaves the narrative sections of the post-mortem as they were
SameNarrative ==
    \A part \in NarrativeSections : postMortem'[part] = postMortem[part]

-----------------------------------------------------------------------------
(* C31..C39: order of the store calls, validation results, targets *)

\* The incident store has been called with createIncident, as its first call
IncidentStored == storeLog # <<>> /\ storeLog[1].op = "createIncident"

\* C31: within a run the first call to the incident store is createIncident,
\* so every addRemediation, updateRemediationValidation and addPostMortem
\* call comes after it; and every step that issues a read call (the history
\* lookup among them), calls the compute target or changes the action list
\* starts from a state in which createIncident has already returned.
C31_IncidentStoredFirst ==
    /\ [](storeLog # <<>> => IncidentStored)
    /\ [][(\/ lookups' # lookups
           \/ renderCalls' # renderCalls
           \/ remediationActions' # remediationActions) => IncidentStored]_vars

\* C31 witness: a finished run whose store log holds, after createIncident,
\* an addRemediation, an updateRemediationValidation and the addPostMortem
\* call, and which issued the history lookup
C31_Witness ==
    /\ pc = "done"
    /\ IncidentStored
    /\ \E i, j, k \in 2..Len(storeLog) :
          /\ storeLog[i].op = "addRemediation"
          /\ storeLog[j].op = "updateRemediationValidation"
          /\ storeLog[k].op = "addPostMortem"
    /\ \E n \in DOMAIN lookups : lookups[n] = "findSimilarIncidents"

\* The error markers as they appear in a signal's text
ETIMEDOUT == <<"E","T","I","M","E","D","O","U","T">>
ENOSPC == <<"E","N","O","S","P","C">>

\* C32 (as claimed): an incident whose batch text contains ETIMEDOUT and no
\* 5xx code has root cause "Service timeout"; one whose text contains ENOSPC
\* and no earlier cue (5xx code, timeout, memory) has root cause "Resource
\* exhaustion (disk)".
C32_ErrorMarkersAreCues ==
    IncidentCreated =>
        LET text == allTextOf(signalBatch)
        IN  /\ (includes(text, ETIMEDOUT) /\ ~CuePresent(1))
                => incident.rootCause = "Service timeout"
            /\ (includes(text, ENOSPC) /\ ~includes(text, ETIMEDOUT)
                    /\ \A k \in 1..3 : ~CuePresent(k))
                => incident.rootCause = "Resource exhaustion (disk)"

\* The results of search i that its callback turned into signals: those it
\* got through that passed the score threshold
Qualifying(i) ==
    SelectSeq(searches[i].results,
              LAMBDA r : r.score > thresholdOf(searches[i]))

\* How many of them carry no URL, over searches i..
RECURSIVE WithoutUrlFrom(_)
WithoutUrlFrom(i) ==
    IF i > Len(searches) THEN 0
    ELSE Len(SelectSeq(Qualifying(i), LAMBDA r : ~truthy(r.url)))
         + WithoutUrlFrom(i + 1)

\* C33: the outage search returns no two signals with the same URL, keeps
\* one signal for every result that has no URL, and returns exactly the URLs
\* of the results that passed the score threshold of their search, whatever
\* the order in which the general and the targeted searches completed.
C33_OutageSearchDeduplicated ==
    pc = "searched" =>
        /\ \A i, j \in DOMAIN tavilySignals :
              (i < j /\ truthy(tavilySignals[i].url))
                  => tavilySignals[i].url # tavilySignals[j].url
        /\ Len(SelectSeq(tavilySignals, LAMBDA g : ~truthy(g.url)))
              = WithoutUrlFrom(1)
        /\ {tavilySignals[i].url : i \in DOMAIN tavilySignals} \ {Unset, ""}
              = UNION { {Qualifying(i)[n].url : n \in DOMAIN Qualifying(i)}
                        : i \in DOMAIN searches } \ {Unset, ""}

\* C33 witness: three searches; a targeted search completed before the
\* general one and both reported the same URL under different titles, so
\* the later signal was dropped; the third search reported a result without
\* URL, which was kept
C33_Witness ==
    /\ pc = "searched"
    /\ Len(searches) = 3
    /\ \A i \in DOMAIN searches : searches[i].state = "done"
    /\ searches[1].results # <<>> /\ searches[1].results[1].title = "A"
    /\ outageSignals # <<>> /\ outageSignals[1].title = "B"
    /\ Len(tavilySignals) < Len(outageSignals)
    /\ \E i \in DOMAIN tavilySignals : ~truthy(tavilySignals[i].url)
    /\ \A i \in DOMAIN tavilySignals : tavilySignals[i].title # "A"

\* The actions the incident carried into validateRemediation, and the
\* actions the call appended (each remembers the action that caused it)
GivenActions == SelectSeq(remediationActions, LAMBDA a : a.cause = 0)
AppendedActions == SelectSeq(remediationActions, LAMBDA a : a.cause # 0)

CountOfType(actions, type) == Len(SelectSeq(actions, LAMBDA a : a.type = type))

\* C34: validateRemediation returns for every action list and every listing
\* (the loop over the list it appends to reaches the end of the list), and
\* the number of actions it appended is at most two per restart action and
\* one per scale action of the list it was given.
C34_ValidationAppendsBounded ==
    /\ pc = "validating" =>
          \A listing \in ValidationListings :
              validateLoop([actions |-> remediationActions,
                            calls |-> renderCalls, store |-> storeLog,
                            checks |-> <<>>,
                            allHealthy |-> TRUE, retried |-> FALSE],
                           1, listing) # {}
    /\ pc = "validated" =>
          Len(AppendedActions) <= 2 * CountOfType(GivenActions, "restart")
                                    + CountOfType(GivenActions, "scale")

\* C34 witness: a restart and a scale were given; the restart was found
\* unhealthy, and so was the scale pushed for it, and so was the given
\* scale: three actions appended, the bound reached
C34_Witness ==
    /\ pc = "validated"
    /\ TypesOf(GivenActions) = <<"restart", "scale">>
    /\ TypesOf(AppendedActions) = <<"scale", "alert", "alert">>

\* C35: when validateRemediation has returned, healthy is true exactly when
\* the call set resolvedAt; healthy implies that retried is false and that
\* nothing was appended; retried is true exactly when the call appended at
\* least one escalation action.
C35_ResultConsistentWithIncident ==
    pc = "validated" =>
        /\ validation.healthy <=> resolvedAt
        /\ validation.healthy =>
              (~validation.retried /\ AppendedActions = <<>>)
        /\ validation.retried <=> AppendedActions # <<>>

\* C35 witness: a call that found one target healthy and another unhealthy:
\* the result is not healthy, an escalation was appended and retried is true
C35_Witness ==
    /\ pc = "validated"
    /\ ~validation.healthy /\ validation.retried
    /\ \E h, g \in DOMAIN statusChecks :
          statusChecks[h].active /\ ~statusChecks[g].active

\* C36 (as claimed): an incident is marked resolved only if every restart
\* and scale action of its list has validated = true; an incident whose
\* only action is an alert is not marked resolved.
C36_ResolvedOnlyIfAllValidated ==
    (Validated /\ resolvedAt) =>
        /\ \A i \in DOMAIN remediationActions :
              remediationActions[i].type \in {"restart", "scale"}
                  => remediationActions[i].validated = "true"
        /\ TypesOf(remediationActions) # <<"alert">>

\* The calls remediate issued to the compute target: the i-th of them was
\* issued for the i-th action it recorded
StrategyCalls == SelectSeq(renderCalls, LAMBDA c : c.stage = "strategy")

\* The status checks made for action id
ChecksOf(id) == SelectSeq(statusChecks, LAMBDA h : h.actionId = id)

\* C37: when the listing at validation time is the listing of strategy
\* time, every restart or scale action that remediate executed is checked,
\* once, and the service whose status is checked is the service (same id)
\* on which remediate executed the action, also when one listed name
\* contains another.
C37_CheckedServiceIsExecutedService ==
    pc = "report" =>
        \A i \in DOMAIN remediationActions :
            LET a == remediationActions[i]
            IN  (a.cause = 0 /\ a.type \in {"restart", "scale"})
                => /\ Len(ChecksOf(a.id)) = 1
                   /\ ChecksOf(a.id)[1].serviceId = StrategyCalls[i].serviceId

\* C37 witness: the listing holds "aws" and then "AWS-s3", whose name
\* contains the first; actions were executed on both services and each was
\* checked on its own service
C37_Witness ==
    /\ pc = "report"
    /\ Len(renderServices) = 2
    /\ renderServices[1].id = "srv-2" /\ renderServices[2].id = "srv-1"
    /\ \E i, j \in DOMAIN statusChecks :
          /\ statusChecks[i].serviceId = "srv-1"
          /\ statusChecks[j].serviceId = "srv-2"
          /\ remediationActions[statusChecks[i].actionId].cause = 0
          /\ remediationActions[statusChecks[j].actionId].cause = 0

\* The incident store was called with addRemediation for action id
Stored(id) ==
    \E n \in DOMAIN storeLog :
        storeLog[n].op = "addRemediation" /\ storeLog[n].actionId = id

\* C38 (as claimed): at the end of a run every action of the incident's
\* action list, whatever its type, was handed to the incident store by an
\* addRemediation call.
C38_EveryActionStored ==
    pc = "done" =>
        \A i \in DOMAIN remediationActions : Stored(remediationActions[i].id)

\* The compute-target calls of remediate on service id with operation op
StrategyCallsOn(id, op) ==
    SelectSeq(renderCalls,
              LAMBDA c : c.stage = "strategy" /\ c.serviceId = id /\ c.op = op)

\* C39 (as claimed): in one remediate call each compute-target service
\* receives at most one restart call, at most one scale call and at most one
\* resume call, also when several declared services match the same service.
C39_OneChainPerService ==
    Remediated =>
        \A rs \in RenderPool : \A op \in {"restart", "scale", "resume"} :
            Len(StrategyCallsOn(rs.id, op)) <= 1

====
